---- MODULE Spec2Model ----
(***************************************************************************)
(* Active Workout Session Engine of ameet2r/workout.                       *)
(*                                                                         *)
(* The model follows ActiveWorkoutPage (frontend/src/routes/LoginPage.jsx, *)
(* the component that starts at line 169) and the useHeartRateMonitor hook.*)
(* React state cells and refs keep the names they have in the source.  One *)
(* action is one event-loop task: an event handler (or a timer callback,   *)
(* or the continuation of an awaited call) together with the re-render and *)
(* the effects that the state changes of that handler trigger.             *)
(***************************************************************************)
EXTENDS Integers, Sequences, FiniteSets

\* ------------------------------------------------------------------ bounds
MaxSets == 1          \* sets logged in memory, over all exercises
MaxStarts == 2        \* timers started
MaxClock == 3         \* seconds of wall-clock time that timer ticks may consume
MaxReloads == 1       \* page reloads
MaxReadings == 320    \* heart rate readings recorded before completion
MaxArrivals == 2      \* heart rate notifications during completion
MaxAttempts == 2      \* clicks on Complete
MaxPicks == 1         \* connect() calls
MaxLosses == 1        \* unexpected losses of the link
MaxRebuilds == 1      \* teardowns of the page view with the process kept alive
MaxCalls == 2         \* reconnect() and disconnect() calls from the page
MaxRequests == 2      \* history requests per exercise_version_id

\* --------------------------------------------------------------- JS values
\* null and NaN, in the numeric fields they can occur in
Null == -1
NaN == -2

None == <<>>
Some(x) == <<x>>

\* timer_runs of a set is either undefined or an array
UndefinedValue == [defined |-> FALSE]
ArrayValue(a) == [defined |-> TRUE, items |-> a]

\* o.k for a key the object may lack
Prop(o, k) == IF k \in DOMAIN o THEN o[k] ELSE UndefinedValue

\* parseInt / parseFloat / Number.prototype.toString on the strings the inputs hold
ParseInt(s) ==
  CASE s = "1" -> 1
    [] s = "5" -> 5
    [] s = "8" -> 8
    [] s = "10" -> 10
    [] OTHER -> NaN

ParseFloat(s) ==
  CASE s = "135" -> 135
    [] s = "140" -> 140
    [] OTHER -> NaN

NumberToString(n) ==
  CASE n = 1 -> "1"
    [] n = 5 -> "5"
    [] n = 10 -> "10"
    [] n = 135 -> "135"
    [] n = 140 -> "140"
    [] OTHER -> "NaN"

\* JS truthiness of a number-or-null
Truthy(n) == n # Null /\ n # NaN /\ n # 0

\* JSON.stringify: a property whose value is undefined is left out, NaN becomes null
JsonNumber(n) == IF n = NaN THEN Null ELSE n

JsonStringifySet(s) ==
  LET keys == {k \in DOMAIN s : k = "timer_runs" => s[k].defined}
  IN  [k \in keys |-> IF k \in {"reps", "weight", "rpe"} THEN JsonNumber(s[k]) ELSE s[k]]

JsonStringifySets(sets) == [j \in 1..Len(sets) |-> JsonStringifySet(sets[j])]

JsonStringify(exs) ==
  [i \in 1..Len(exs) |-> [exs[i] EXCEPT !.sets = JsonStringifySets(exs[i].sets)]]

\* JSON.parse: the object tree the text denotes
JsonParse(json) == json

\* deep equality of two exercise lists as the program can observe it
\* (a property that is absent and one that is undefined read the same)
SetKeys == {"reps", "weight", "completed_at", "rpe", "notes", "timer_runs"}

SameSet(a, b) == \A k \in SetKeys : Prop(a, k) = Prop(b, k)

SameSets(a, b) ==
  /\ Len(a) = Len(b)
  /\ \A j \in 1..Len(a) : SameSet(a[j], b[j])

SameExercises(a, b) ==
  /\ Len(a) = Len(b)
  /\ \A i \in 1..Len(a) :
       /\ [a[i] EXCEPT !.sets = <<>>] = [b[i] EXCEPT !.sets = <<>>]
       /\ SameSets(a[i].sets, b[i].sets)

\* ------------------------------------------------------- the remote store
\* the plan the session was started from (GET /api/workout-plans/{id})
PlanExercises ==
  << [exercise_version_id |-> "v1", planned_sets |-> 3, planned_reps |-> 10,
      planned_weight |-> 135, is_bodyweight |-> FALSE, instruction |-> "slow",
      timers |-> << [duration |-> 2, type |-> "per_set"],
                    [duration |-> 1, type |-> "total"] >>],
     [exercise_version_id |-> "v2", planned_sets |-> 3, planned_reps |-> Null,
      planned_weight |-> Null, is_bodyweight |-> TRUE, instruction |-> "hang",
      timers |-> << [duration |-> 2, type |-> "per_set"] >>] >>

PlanData == [id |-> "p1", exercises |-> PlanExercises]

\* the exercise_version_ids of the plan
VersionIds == {PlanExercises[i].exercise_version_id : i \in 1..Len(PlanExercises)}

\* a set the remote store may already hold for the session
ServerSet ==
  [reps |-> 5, weight |-> Null, completed_at |-> 0, rpe |-> Null, notes |-> Null]

\* the exercises field of the remote session record when the page is opened
ServerExercises ==
  { <<>>,
    << [exercise_version_id |-> "v2", sets |-> <<ServerSet>>] >> }

\* the values the user types into the reps input (weight and RPE keep the
\* defaults the page fills in)
RepsInputs == {"", "5"}

VARIABLES
  \* React state of ActiveWorkoutPage
  loading, error, session, workoutPlan, sessionExercises, currentExerciseIndex,
  currentReps, currentWeight, currentRpe, oneRmMode,
  activeTimerIndex, timeRemaining, currentSetTimerRuns,
  \* the exercise histories cached by exercise_version_id, the history requests
  \* in flight and the number of requests made, per exercise_version_id
  exerciseHistoryCache, historyFetches, historyRequests,
  \* refs
  timerIntervalRef, timerStartTimeRef, timerPlannedDurationRef,
  \* the browser: localStorage, live intervals, the clock
  localStorage, intervals, now,
  \* the remote store and the position of fetchWorkoutData
  remote, fetchPc,
  \* heart rate: page state, useHeartRateMonitor state and refs, module-level
  \* handles, and the platform's side of the link
  heartRateReadings, includeHeartRate, isConnected, currentHeartRate,
  deviceRef, characteristicRef, persistedDevice, persistedCharacteristic,
  gattConnected, notifying, listenerAttached, disconnectPc,
  \* more of useHeartRateMonitor: state, the positions of connect() and
  \* reconnect(), the page instance, the instances whose gattserverdisconnected
  \* listener the device carries, and counts of what the platform was asked
  deviceName, hrError, connectPc, reconnectPc, instance, lossListeners,
  pickerCalls, linksOpened, losses, hookCalls,
  \* the bytes of the value the characteristic last notified (event.target.value)
  characteristicValue,
  \* completion: dialog state, the position of handleCompleteWorkout, the values
  \* its closure holds, the steps it has taken, and the route
  openCompleteDialog, completingWorkout, completePc, completeClosure, batchIndex,
  completionSteps, route,
  \* cancellation: dialog state, the position of handleConfirmCancelWorkout and
  \* the isConnected its closure holds
  openCancelDialog, cancelPc, cancelClosure,
  \* counters that bound the runs explored
  reloads, starts, arrivals, attempts

vars ==
  << loading, error, session, workoutPlan, sessionExercises, currentExerciseIndex,
     currentReps, currentWeight, currentRpe, oneRmMode,
     exerciseHistoryCache, historyFetches, historyRequests,
     activeTimerIndex, timeRemaining, currentSetTimerRuns,
     timerIntervalRef, timerStartTimeRef, timerPlannedDurationRef,
     localStorage, intervals, now, remote, fetchPc,
     heartRateReadings, includeHeartRate, isConnected, currentHeartRate,
     deviceRef, characteristicRef, persistedDevice, persistedCharacteristic,
     gattConnected, notifying, listenerAttached, disconnectPc,
     deviceName, hrError, connectPc, reconnectPc, instance, lossListeners,
     pickerCalls, linksOpened, losses, hookCalls, characteristicValue,
     openCompleteDialog, completingWorkout, completePc, completeClosure, batchIndex,
     completionSteps, route,
     openCancelDialog, cancelPc, cancelClosure,
     reloads, starts, arrivals, attempts >>

timerVars ==
  << activeTimerIndex, timeRemaining, currentSetTimerRuns,
     timerIntervalRef, timerStartTimeRef, timerPlannedDurationRef, intervals >>

inputVars == << currentReps, currentWeight, currentRpe >>

fetchVars == << loading, error, session, workoutPlan, fetchPc >>

\* the state of useHeartRateMonitor and of the link
connectorVars ==
  << deviceName, hrError, connectPc, reconnectPc, instance, lossListeners,
     pickerCalls, linksOpened, losses, hookCalls >>

sensorVars ==
  << isConnected, currentHeartRate, deviceRef, characteristicRef, persistedDevice,
     persistedCharacteristic, gattConnected, notifying, listenerAttached, disconnectPc,
     connectorVars >>

\* the state of the cancel dialog and of handleConfirmCancelWorkout
cancelVars == << openCancelDialog, cancelPc, cancelClosure >>

\* the state of the two dialogs and of their handlers
completionVars ==
  << openCompleteDialog, completingWorkout, completePc, completeClosure, batchIndex,
     completionSteps, route, attempts, cancelVars >>

\* what the set, timer and initialisation handlers never touch
heartVars == << heartRateReadings, includeHeartRate, sensorVars, completionVars, arrivals, characteristicValue >>

\* the history cache of the one-rep-max panel and its requests
historyVars == << exerciseHistoryCache, historyFetches, historyRequests >>

\* what the sensor and completion handlers never touch
sessionVars ==
  << fetchVars, sessionExercises, currentExerciseIndex, inputVars, oneRmMode, historyVars,
     timerVars, now, reloads, starts >>

\* what handleCompleteWorkout's closure holds while no completion runs
NoClosure == [exercises |-> <<>>, readings |-> <<>>, include |-> FALSE, connected |-> FALSE]

\* ------------------------------------------------------------ the page
\* the session view is rendered (not the spinner, the error or the warning)
Ready == ~loading /\ error = None /\ session # None /\ workoutPlan # None

CurrentExercise == sessionExercises[currentExerciseIndex + 1]

TotalSets(exs) ==
  LET RECURSIVE Sum(_)
      Sum(i) == IF i = 0 THEN 0 ELSE Len(exs[i].sets) + Sum(i - 1)
  IN  Sum(Len(exs))

\* x ? x.toString() : '' for a planned number
PlannedRepsText(ex) == IF Truthy(ex.plannedReps) THEN NumberToString(ex.plannedReps) ELSE ""

PlannedWeightText(ex) ==
  IF Truthy(ex.plannedWeight) /\ ~ex.isBodyweight THEN NumberToString(ex.plannedWeight) ELSE ""

SaveEffectWhenSets(exs, ls) ==
  IF TotalSets(exs) > 0 THEN [ls EXCEPT !.exercises = Some(JsonStringify(exs))] ELSE ls

\* effect: save session exercises to localStorage whenever they change
SaveEffect(exs, ls) ==
  IF Len(exs) > 0 THEN [ls EXCEPT !.exercises = Some(JsonStringify(exs))] ELSE ls

\* effect: auto-populate the inputs when the exercise list changes;
\* the result is <<currentReps, currentWeight>>
PopulateEffect(exs, idx, reps, weight, mode) ==
  IF Len(exs) > 0 /\ idx = 0 /\ reps = "" /\ ~mode
  THEN << PlannedRepsText(exs[1]), PlannedWeightText(exs[1]) >>
  ELSE << reps, weight >>

\* one entry of the in-memory exercise list, built from a plan exercise
FromPlan(pe, sets) ==
  [exercise_version_id |-> pe.exercise_version_id,
   sets |-> sets,
   plannedSets |-> pe.planned_sets,
   plannedReps |-> pe.planned_reps,
   plannedWeight |-> pe.planned_weight,
   isBodyweight |-> pe.is_bodyweight,
   instruction |-> pe.instruction,
   timers |-> pe.timers]

\* sessionData.exercises.find(se => se.exercise_version_id === id)?.sets || []
ServerSetsOf(sessionData, id) ==
  LET hits == {i \in 1..Len(sessionData.exercises) :
                 sessionData.exercises[i].exercise_version_id = id}
  IN  IF hits = {} THEN <<>>
      ELSE sessionData.exercises[CHOOSE i \in hits : \A j \in hits : i <= j].sets

\* the list fetchWorkoutData installs once session and plan have arrived
ExercisesFromServer(sessionData, planData) ==
  IF Len(sessionData.exercises) = 0
  THEN [i \in 1..Len(planData.exercises) |-> FromPlan(planData.exercises[i], <<>>)]
  ELSE [i \in 1..Len(planData.exercises) |->
          FromPlan(planData.exercises[i],
                   ServerSetsOf(sessionData, planData.exercises[i].exercise_version_id))]

\* the list the mount effect installs from localStorage
ExercisesFromCache(ls) ==
  IF ls.exercises # None THEN JsonParse(ls.exercises[1]) ELSE <<>>

\* the readings the mount effect installs from localStorage
ReadingsFromCache(ls) ==
  IF ls.heart_rate # None THEN JsonParse(ls.heart_rate[1]) ELSE <<>>

\* the page right after it is built: state initialisers, then the mount effects
\* (fetchWorkoutData up to its first await, the localStorage load)
Mounted(ls) ==
  /\ loading = TRUE
  /\ error = None
  /\ session = None
  /\ workoutPlan = None
  /\ fetchPc = "session"
  /\ sessionExercises = ExercisesFromCache(ls)
  /\ currentExerciseIndex = 0
  /\ LET p == PopulateEffect(ExercisesFromCache(ls), 0, "", "", FALSE)
     IN  currentReps = p[1] /\ currentWeight = p[2]
  /\ currentRpe = ""
  /\ oneRmMode = FALSE
  /\ exerciseHistoryCache = [v \in VersionIds |-> None]
  /\ historyFetches = [v \in VersionIds |-> 0]
  /\ historyRequests = [v \in VersionIds |-> 0]
  /\ activeTimerIndex = Null
  /\ timeRemaining = Null
  /\ currentSetTimerRuns = <<>>
  /\ timerIntervalRef = Null
  /\ timerStartTimeRef = Null
  /\ timerPlannedDurationRef = Null
  /\ intervals = {}
  /\ heartRateReadings = ReadingsFromCache(ls)
  /\ includeHeartRate = FALSE
  /\ openCompleteDialog = FALSE
  /\ completingWorkout = FALSE
  /\ completePc = "idle"
  /\ completeClosure = NoClosure
  /\ batchIndex = 0
  /\ completionSteps = <<>>
  /\ route = "/workout"
  /\ openCancelDialog = FALSE
  /\ cancelPc = "idle"
  /\ cancelClosure = FALSE

\* useHeartRateMonitor with no device paired
NoSensor ==
  /\ isConnected = FALSE
  /\ currentHeartRate = Null
  /\ deviceRef = None
  /\ characteristicRef = None
  /\ persistedDevice = None
  /\ persistedCharacteristic = None
  /\ gattConnected = FALSE
  /\ notifying = FALSE
  /\ listenerAttached = FALSE
  /\ disconnectPc = "idle"
  /\ deviceName = None
  /\ hrError = <<>>
  /\ connectPc = "idle"
  /\ reconnectPc = "idle"
  /\ lossListeners = {}
  /\ pickerCalls = 0
  /\ linksOpened = 0
  /\ losses = 0
  /\ hookCalls = 0
  /\ characteristicValue = <<>>

\* the remote session record of a session that was just started
NewRemote(planId, exs) ==
  [workout_plan_id |-> planId, exercises |-> exs, garmin_data |-> None,
   heart_rate_batches |-> <<>>, completed |-> FALSE, deleted |-> FALSE]

Init ==
  /\ localStorage = [exercises |-> None, heart_rate |-> None]
  /\ remote \in {NewRemote(planId, exs) : planId \in {"p1", ""}, exs \in ServerExercises}
  /\ now = 0
  /\ reloads = 0
  /\ starts = 0
  /\ arrivals = 0
  /\ attempts = 0
  /\ instance = 0
  /\ Mounted(localStorage)
  /\ NoSensor

\* ------------------------------------------------- initialisation (fetch)
\* fetchWorkoutData: GET /api/workout-sessions/{id} answered
FetchSessionOk ==
  /\ fetchPc = "session"
  /\ session' = Some(remote)
  /\ IF remote.workout_plan_id # ""
     THEN /\ fetchPc' = "plan"
          /\ UNCHANGED << loading, error >>
     ELSE /\ fetchPc' = "done"
          /\ error' = None
          /\ loading' = FALSE
  /\ UNCHANGED << workoutPlan, sessionExercises, currentExerciseIndex, inputVars,
                  oneRmMode, historyVars, timerVars, localStorage, now, remote, reloads, starts, heartVars >>

\* fetchWorkoutData: either GET rejected
FetchFail ==
  /\ fetchPc \in {"session", "plan"}
  /\ fetchPc' = "done"
  /\ error' = Some("network")
  /\ loading' = FALSE
  /\ UNCHANGED << session, workoutPlan, sessionExercises, currentExerciseIndex,
                  inputVars, oneRmMode, historyVars, timerVars, localStorage, now, remote, reloads, starts, heartVars >>

\* fetchWorkoutData: GET /api/workout-plans/{id} answered with planData
FetchPlanAnswered(planData) ==
  /\ fetchPc = "plan"
  /\ fetchPc' = "done"
  /\ workoutPlan' = Some(planData)
  /\ sessionExercises' = ExercisesFromServer(session[1], planData)
  /\ error' = None
  /\ loading' = FALSE
  /\ localStorage' = SaveEffect(sessionExercises', localStorage)
  /\ LET p == PopulateEffect(sessionExercises', currentExerciseIndex,
                              currentReps, currentWeight, oneRmMode)
     IN  currentReps' = p[1] /\ currentWeight' = p[2]
  /\ UNCHANGED << session, currentExerciseIndex, currentRpe, oneRmMode, historyVars, timerVars,
                  now, remote, reloads, starts, heartVars >>

\* fetchWorkoutData: the plan of the session arrives
FetchPlanOk == FetchPlanAnswered(PlanData)

\* the page is torn down and built again (reload, or navigation away and back)
Reload ==
  /\ reloads < MaxReloads
  /\ reloads' = reloads + 1
  /\ loading' = TRUE
  /\ error' = None
  /\ session' = None
  /\ workoutPlan' = None
  /\ fetchPc' = "session"
  /\ sessionExercises' = ExercisesFromCache(localStorage)
  /\ currentExerciseIndex' = 0
  /\ LET p == PopulateEffect(ExercisesFromCache(localStorage), 0, "", "", FALSE)
     IN  currentReps' = p[1] /\ currentWeight' = p[2]
  /\ currentRpe' = ""
  /\ oneRmMode' = FALSE
  /\ exerciseHistoryCache' = [v \in VersionIds |-> None]
  /\ historyFetches' = [v \in VersionIds |-> 0]
  /\ historyRequests' = [v \in VersionIds |-> 0]
  /\ activeTimerIndex' = Null
  /\ timeRemaining' = Null
  /\ currentSetTimerRuns' = <<>>
  /\ timerIntervalRef' = Null
  /\ timerStartTimeRef' = Null
  /\ timerPlannedDurationRef' = Null
  /\ intervals' = {}
  /\ heartRateReadings' = ReadingsFromCache(localStorage)
  /\ UNCHANGED << localStorage, now, remote, starts, includeHeartRate, sensorVars,
                  completionVars, arrivals, characteristicValue >>

\* ------------------------------------------------------------ the inputs
SetReps(v) ==
  /\ Ready /\ ~oneRmMode
  /\ currentReps' = v
  /\ UNCHANGED << fetchVars, sessionExercises, currentExerciseIndex, currentWeight,
                  currentRpe, oneRmMode, historyVars, timerVars, localStorage, now, remote, reloads, starts, heartVars >>

\* ------------------------------------------------------------- the sets
AddSetDisabledRepsOnly == currentReps = ""

\* the Add Set button is disabled
AddSetDisabled == currentReps = "" \/ activeTimerIndex # Null

AttachedLastRun(runs) ==
  IF Len(runs) > 0 THEN ArrayValue(<<runs[Len(runs)]>>) ELSE UndefinedValue

\* timer_runs of the set handleAddSet builds
AttachedRuns(runs) ==
  IF Len(runs) > 0 THEN ArrayValue(runs) ELSE UndefinedValue

\* the state changes of handleAddSet, with the effects that follow the render
HandleAddSet ==
  IF currentReps = ""
  THEN UNCHANGED vars
  ELSE
    LET newSet ==
          [reps |-> ParseInt(currentReps),
           weight |-> IF currentWeight # "" THEN ParseFloat(currentWeight) ELSE Null,
           completed_at |-> now,
           rpe |-> IF currentRpe # "" THEN ParseInt(currentRpe) ELSE Null,
           notes |-> Null,
           timer_runs |-> AttachedRuns(currentSetTimerRuns)]
        updatedExercises ==
          [sessionExercises EXCEPT ![currentExerciseIndex + 1].sets = Append(@, newSet)]
        reps1 == IF oneRmMode THEN "1" ELSE PlannedRepsText(CurrentExercise)
        weight1 == IF oneRmMode THEN "" ELSE PlannedWeightText(CurrentExercise)
        p == PopulateEffect(updatedExercises, currentExerciseIndex, reps1, weight1, oneRmMode)
    IN  /\ sessionExercises' = updatedExercises
        /\ currentSetTimerRuns' = <<>>
        /\ currentReps' = p[1]
        /\ currentWeight' = p[2]
        /\ currentRpe' = ""
        /\ localStorage' = SaveEffect(updatedExercises, localStorage)
        /\ UNCHANGED << fetchVars, currentExerciseIndex, oneRmMode, historyVars, activeTimerIndex,
                        timeRemaining, timerIntervalRef, timerStartTimeRef,
                        timerPlannedDurationRef, intervals, now, remote, reloads, starts, heartVars >>

\* a click on the Add Set button
AddSet ==
  /\ Ready
  /\ TotalSets(sessionExercises) < MaxSets
  /\ IF AddSetDisabled THEN UNCHANGED vars ELSE HandleAddSet

FilterBefore(sets, setIndex) ==
  LET kept == SelectSeq([i \in 1..Len(sets) |-> << i - 1, sets[i] >>],
                        LAMBDA e : e[1] < setIndex)
  IN  [i \in 1..Len(kept) |-> kept[i][2]]

\* sets.filter((_, i) => i !== setIndex)
FilterOut(sets, setIndex) ==
  LET kept == SelectSeq([i \in 1..Len(sets) |-> << i - 1, sets[i] >>],
                        LAMBDA e : e[1] # setIndex)
  IN  [i \in 1..Len(kept) |-> kept[i][2]]

\* handleDeleteSet, from the delete icon of a set of the current exercise
DeleteSet(exerciseIndex, setIndex) ==
  /\ Ready
  /\ exerciseIndex = currentExerciseIndex
  /\ setIndex \in 0..(Len(CurrentExercise.sets) - 1)
  /\ LET old == sessionExercises[exerciseIndex + 1].sets
         updatedExercises ==
           [sessionExercises EXCEPT ![exerciseIndex + 1].sets = FilterOut(old, setIndex)]
         p == PopulateEffect(updatedExercises, currentExerciseIndex,
                             currentReps, currentWeight, oneRmMode)
     IN  /\ sessionExercises' = updatedExercises
         /\ localStorage' = SaveEffect(updatedExercises, localStorage)
         /\ currentReps' = p[1]
         /\ currentWeight' = p[2]
  /\ UNCHANGED << fetchVars, currentExerciseIndex, currentRpe, oneRmMode, historyVars, timerVars,
                  now, remote, reloads, starts, heartVars >>

\* ------------------------------------------------------------ the timers
\* the run handleStopTimer records for the timer it stops
StoppedRun ==
  [started_at |-> timerStartTimeRef,
   duration_seconds |-> timerPlannedDurationRef - timeRemaining,
   planned_duration_seconds |-> timerPlannedDurationRef,
   completed |-> FALSE]

\* the run the last tick records
CompletedRun ==
  [started_at |-> timerStartTimeRef,
   duration_seconds |-> timerPlannedDurationRef,
   planned_duration_seconds |-> timerPlannedDurationRef,
   completed |-> TRUE]

RunsAfterStopRefsCleared(prev) == prev

\* handleStopTimer's update of the pending list, applied to the list the
\* earlier updates of the same handler have produced
RunsAfterStop(prev) ==
  IF /\ timerIntervalRef # Null
     /\ timerStartTimeRef # Null
     /\ Truthy(timerPlannedDurationRef)
     /\ timeRemaining # Null
  THEN Append(prev, StoppedRun)
  ELSE prev

IntervalsNotCleared == intervals

\* clearInterval(timerIntervalRef.current)
IntervalsAfterClear == intervals \ {timerIntervalRef}

\* the id setInterval returns: a positive integer no live interval has
FreshInterval(live) == CHOOSE i \in 1..(Cardinality(live) + 1) : i \notin live

\* handleStopTimer
HandleStopTimer ==
  /\ currentSetTimerRuns' = RunsAfterStop(currentSetTimerRuns)
  /\ intervals' = IF timerIntervalRef # Null THEN IntervalsAfterClear ELSE intervals
  /\ timerIntervalRef' = Null
  /\ timerStartTimeRef' = IF timerIntervalRef # Null THEN Null ELSE timerStartTimeRef
  /\ timerPlannedDurationRef' =
       IF timerIntervalRef # Null THEN Null ELSE timerPlannedDurationRef
  /\ activeTimerIndex' = Null
  /\ timeRemaining' = Null

HandleStartTimerKeepsRuns(timerIndex, duration) ==
  LET live == IF timerIntervalRef # Null THEN IntervalsAfterClear ELSE intervals
      id == FreshInterval(live)
  IN  /\ currentSetTimerRuns' = currentSetTimerRuns
      /\ intervals' = live \cup {id}
      /\ timerIntervalRef' = id
      /\ activeTimerIndex' = timerIndex
      /\ timeRemaining' = duration
      /\ timerStartTimeRef' = now
      /\ timerPlannedDurationRef' = duration

\* handleStartTimer
HandleStartTimer(timerIndex, duration) ==
  LET live == IF timerIntervalRef # Null THEN IntervalsAfterClear ELSE intervals
      id == FreshInterval(live)
  IN  /\ currentSetTimerRuns' =
           IF timerIntervalRef # Null THEN RunsAfterStop(currentSetTimerRuns)
           ELSE currentSetTimerRuns
      /\ intervals' = live \cup {id}
      /\ timerIntervalRef' = id
      /\ activeTimerIndex' = timerIndex
      /\ timeRemaining' = duration
      /\ timerStartTimeRef' = now
      /\ timerPlannedDurationRef' = duration

\* handleRestartTimer
HandleRestartTimer(timerIndex, duration) == HandleStartTimer(timerIndex, duration)

\* the timers the page shows: those of the current exercise
TimerIndexes == 0..(Len(CurrentExercise.timers) - 1)

\* the Start button of a timer that is not the active one
StartTimer(idx) ==
  /\ Ready
  /\ idx \in TimerIndexes
  /\ activeTimerIndex # idx
  /\ starts < MaxStarts
  /\ starts' = starts + 1
  /\ HandleStartTimer(idx, CurrentExercise.timers[idx + 1].duration)
  /\ UNCHANGED << fetchVars, sessionExercises, currentExerciseIndex, inputVars,
                  oneRmMode, historyVars, localStorage, now, remote, reloads, heartVars >>

\* the Stop button of the active timer
StopTimer ==
  /\ Ready
  /\ activeTimerIndex \in TimerIndexes
  /\ HandleStopTimer
  /\ UNCHANGED << fetchVars, sessionExercises, currentExerciseIndex, inputVars,
                  oneRmMode, historyVars, localStorage, now, remote, reloads, starts, heartVars >>

\* the Restart button of the active timer: handleRestartTimer
RestartTimer(idx) ==
  /\ Ready
  /\ idx \in TimerIndexes
  /\ activeTimerIndex = idx
  /\ starts < MaxStarts
  /\ starts' = starts + 1
  /\ HandleRestartTimer(idx, CurrentExercise.timers[idx + 1].duration)
  /\ UNCHANGED << fetchVars, sessionExercises, currentExerciseIndex, inputVars,
                  oneRmMode, historyVars, localStorage, now, remote, reloads, heartVars >>

\* prev <= 1 in the interval callback (null compares as 0)
LastTickAtZero(prev) == prev = Null \/ prev <= 0

LastTick(prev) == prev = Null \/ prev <= 1

TickStuck(prev) == prev

\* return prev - 1
Tick(prev) == prev - 1

\* the interval callback, one second later
TimerTick ==
  /\ intervals # {}
  /\ now < MaxClock
  /\ now' = now + 1
  /\ IF LastTick(timeRemaining)
     THEN /\ intervals' = IntervalsAfterClear
          /\ timerIntervalRef' = Null
          /\ activeTimerIndex' = Null
          /\ currentSetTimerRuns' =
               IF timerStartTimeRef # Null /\ Truthy(timerPlannedDurationRef)
               THEN Append(currentSetTimerRuns, CompletedRun)
               ELSE currentSetTimerRuns
          /\ timerStartTimeRef' = Null
          /\ timerPlannedDurationRef' = Null
          /\ timeRemaining' = 0
     ELSE /\ timeRemaining' = Tick(timeRemaining)
          /\ UNCHANGED << intervals, timerIntervalRef, activeTimerIndex,
                          currentSetTimerRuns, timerStartTimeRef, timerPlannedDurationRef >>
  /\ UNCHANGED << fetchVars, sessionExercises, currentExerciseIndex, inputVars,
                  oneRmMode, historyVars, localStorage, remote, reloads, starts, heartVars >>

\* handleChangeExercise, from an exercise chip or the previous / next buttons
ChangeExercise(index) ==
  /\ Ready
  /\ index \in 0..(Len(sessionExercises) - 1)
  /\ currentExerciseIndex' = index
  /\ oneRmMode' = FALSE
  /\ UNCHANGED historyVars
  /\ currentReps' = PlannedRepsText(sessionExercises[index + 1])
  /\ currentWeight' = PlannedWeightText(sessionExercises[index + 1])
  /\ currentRpe' = ""
  /\ currentSetTimerRuns' = RunsAfterStop(<<>>)
  /\ intervals' = IF timerIntervalRef # Null THEN IntervalsAfterClear ELSE intervals
  /\ timerIntervalRef' = Null
  /\ timerStartTimeRef' = IF timerIntervalRef # Null THEN Null ELSE timerStartTimeRef
  /\ timerPlannedDurationRef' =
       IF timerIntervalRef # Null THEN Null ELSE timerPlannedDurationRef
  /\ activeTimerIndex' = Null
  /\ timeRemaining' = Null
  /\ UNCHANGED << fetchVars, sessionExercises, localStorage, now, remote, reloads, starts, heartVars >>

\* -------------------------------------------------------- specification
Next ==
  \/ FetchSessionOk
  \/ FetchFail
  \/ FetchPlanOk
  \/ Reload
  \/ \E v \in RepsInputs : SetReps(v)
  \/ AddSet
  \/ \E s \in 0..(MaxSets - 1) : DeleteSet(currentExerciseIndex, s)
  \/ \E i \in 0..1 : StartTimer(i)
  \/ StopTimer
  \/ \E i \in 0..1 : RestartTimer(i)
  \/ TimerTick
  \/ \E i \in 0..1 : ChangeExercise(i)

Spec == Init /\ [][Next]_vars

\* a live interval keeps firing: setInterval calls back every second until
\* clearInterval
SpecLive == Init /\ [][Next]_vars /\ WF_vars(TimerTick)

\* ------------------------------------------------------ one-rep-max mode
\* exerciseHistoryCache[versionId] is truthy
Cached(cache, versionId) == cache[versionId] # None

RepsWithoutModeEffect(mode, reps) == reps

\* effect: if (oneRmMode) setCurrentReps('1')
RepsAfterModeEffect(mode, reps) == IF mode THEN "1" ELSE reps

\* handleToggle1RmMode up to the await in fetchExerciseHistory, with the effect
\* that sets the reps to 1 when the mode is on
ToggleOneRmMode ==
  /\ Ready
  /\ LET newMode == ~oneRmMode
         versionId == CurrentExercise.exercise_version_id
     IN  /\ oneRmMode' = newMode
         /\ currentReps' = RepsAfterModeEffect(newMode, currentReps)
         /\ IF newMode /\ Len(sessionExercises) > 0
               /\ ~Cached(exerciseHistoryCache, versionId)
            THEN /\ historyRequests[versionId] < MaxRequests
                 /\ historyRequests' = [historyRequests EXCEPT ![versionId] = @ + 1]
                 /\ historyFetches' = [historyFetches EXCEPT ![versionId] = @ + 1]
            ELSE UNCHANGED << historyRequests, historyFetches >>
  /\ UNCHANGED << fetchVars, sessionExercises, currentExerciseIndex, currentWeight,
                  currentRpe, exerciseHistoryCache, timerVars, localStorage, now, remote,
                  reloads, starts, heartVars >>

\* fetchExerciseHistory: the GET answered; the history is cached
HistoryFetchOk(versionId) ==
  /\ historyFetches[versionId] > 0
  /\ historyFetches' = [historyFetches EXCEPT ![versionId] = @ - 1]
  /\ exerciseHistoryCache' = [exerciseHistoryCache EXCEPT ![versionId] = Some("history")]
  /\ UNCHANGED << fetchVars, sessionExercises, currentExerciseIndex, inputVars, oneRmMode,
                  historyRequests, timerVars, localStorage, now, remote, reloads, starts,
                  heartVars >>

\* fetchExerciseHistory: the GET rejected; an empty history is cached
HistoryFetchFail(versionId) ==
  /\ historyFetches[versionId] > 0
  /\ historyFetches' = [historyFetches EXCEPT ![versionId] = @ - 1]
  /\ exerciseHistoryCache' = [exerciseHistoryCache EXCEPT ![versionId] = Some("empty")]
  /\ UNCHANGED << fetchVars, sessionExercises, currentExerciseIndex, inputVars, oneRmMode,
                  historyRequests, timerVars, localStorage, now, remote, reloads, starts,
                  heartVars >>

NextOneRm ==
  \/ FetchSessionOk
  \/ FetchPlanOk
  \/ \E v \in RepsInputs : SetReps(v)
  \/ AddSet
  \/ \E s \in 0..(MaxSets - 1) : DeleteSet(currentExerciseIndex, s)
  \/ \E i \in 0..1 : ChangeExercise(i)
  \/ ToggleOneRmMode
  \/ \E v \in VersionIds : HistoryFetchOk(v)
  \/ \E v \in VersionIds : HistoryFetchFail(v)

SpecOneRm == Init /\ [][NextOneRm]_vars

\* ------------------------------------------------------------ heart rate
\* one entry of heartRateReadings; the timestamp counts the samples since the
\* sensor was paired
Reading(t, v) == [timestamp |-> t, value |-> v]

\* the stream a workout has recorded after n samples
Stream(n) == [i \in 1..n |-> Reading(i, 60 + (i % 5))]

\* JSON.stringify of the reading list
JsonStringifyReadings(rs) ==
  [i \in 1..Len(rs) |-> Reading(rs[i].timestamp, JsonNumber(rs[i].value))]

\* the rates the sensor may notify (0: no skin contact)
HeartRates == {0, 72}

\* useHeartRateMonitor once connect() has finished on this page instance, or
\* on an earlier one with reconnect() run by the mount effect of this one
Connected ==
  /\ isConnected = TRUE
  /\ currentHeartRate = Null
  /\ deviceRef = Some("hrm")
  /\ characteristicRef = Some("hrm-measurement")
  /\ persistedDevice = Some("hrm")
  /\ persistedCharacteristic = Some("hrm-measurement")
  /\ gattConnected = TRUE
  /\ notifying = TRUE
  /\ listenerAttached = TRUE
  /\ disconnectPc = "idle"
  /\ deviceName = Some("hrm")
  /\ hrError = <<>>
  /\ connectPc = "idle"
  /\ reconnectPc = "idle"
  /\ \E i \in 0..instance : lossListeners = {i}
  /\ pickerCalls = 1
  /\ linksOpened = 1
  /\ losses = 0
  /\ hookCalls = 0
  /\ characteristicValue = <<>>

\* a & b for non-negative integers
RECURSIVE BitAnd(_, _)
BitAnd(a, b) ==
  IF a = 0 \/ b = 0 THEN 0
  ELSE (a % 2) * (b % 2) + 2 * BitAnd(a \div 2, b \div 2)

\* DataView.getUint8(byteOffset)
GetUint8(value, byteOffset) == value[byteOffset + 1]

GetUint16BigEndian(value, byteOffset) ==
  256 * value[byteOffset + 1] + value[byteOffset + 2]

\* DataView.getUint16(byteOffset, true): little endian
GetUint16(value, byteOffset) ==
  value[byteOffset + 1] + 256 * value[byteOffset + 2]

\* parseHeartRate: the rate a Heart Rate Measurement value carries
ParseHeartRate(value) ==
  LET flags == GetUint8(value, 0)
      rate16Bits == BitAnd(flags, 1)
  IN  IF rate16Bits # 0 THEN GetUint16(value, 1) ELSE GetUint8(value, 1)

\* the value a sensor sends for a rate below 256: no flag set, the rate in one byte
Uint8Payload(v) == << 0, v >>

\* handleHeartRateChange for a notified value, then the effect that records
\* the reading
HandleHeartRateChange(value) ==
  LET heartRate == ParseHeartRate(value)
  IN  /\ characteristicValue' = value
      /\ currentHeartRate' = heartRate
      /\ IF heartRate # currentHeartRate /\ Truthy(heartRate) /\ isConnected
         THEN LET updated ==
                    Append(heartRateReadings, Reading(Len(heartRateReadings) + 1, heartRate))
              IN  /\ heartRateReadings' = updated
                  /\ localStorage' =
                       [localStorage EXCEPT
                          !.heart_rate = Some(JsonStringifyReadings(updated))]
         ELSE UNCHANGED << heartRateReadings, localStorage >>

\* a notification that carries the rate v
Notify(v) ==
  /\ route = "/workout"
  /\ listenerAttached /\ notifying
  /\ arrivals < MaxArrivals
  /\ arrivals' = arrivals + 1
  /\ HandleHeartRateChange(Uint8Payload(v))
  /\ UNCHANGED << sessionVars, remote, includeHeartRate, isConnected, deviceRef,
                  characteristicRef, persistedDevice, persistedCharacteristic,
                  gattConnected, notifying, listenerAttached, disconnectPc, connectorVars,
                  completionVars >>

\* the page instance whose state a gattserverdisconnected event resets: the
\* listener is registered by connect() only, and closes over the state setters of
\* the instance that ran it
LossHeard == route = "/workout" /\ instance \in lossListeners

\* the link drops: the platform closes it and fires gattserverdisconnected
LinkLost ==
  /\ route \in {"/workout", "/away"}
  /\ gattConnected
  /\ disconnectPc # "stop"
  /\ losses < MaxLosses
  /\ losses' = losses + 1
  /\ gattConnected' = FALSE
  /\ notifying' = FALSE
  /\ isConnected' = IF LossHeard THEN FALSE ELSE isConnected
  /\ currentHeartRate' = IF LossHeard THEN Null ELSE currentHeartRate
  /\ deviceName' = IF LossHeard THEN None ELSE deviceName
  /\ UNCHANGED << sessionVars, localStorage, remote, heartRateReadings, includeHeartRate,
                  deviceRef, characteristicRef, persistedDevice, persistedCharacteristic,
                  listenerAttached, disconnectPc, hrError, connectPc, reconnectPc, instance,
                  lossListeners, pickerCalls, linksOpened, hookCalls, completionVars, arrivals, characteristicValue >>

\* disconnect() up to its first await: with a characteristic held, the listener
\* is removed and stopNotifications() is awaited; without one, the link is closed
\* and the handles and the state are cleared
DisconnectStart ==
  IF characteristicRef # None
  THEN /\ listenerAttached' = FALSE
       /\ disconnectPc' = "stop"
       /\ UNCHANGED << isConnected, currentHeartRate, deviceRef, characteristicRef,
                       persistedDevice, persistedCharacteristic, gattConnected, notifying,
                       connectorVars >>
  ELSE /\ disconnectPc' = "done"
       /\ gattConnected' = FALSE
       /\ deviceRef' = None
       /\ persistedDevice' = None
       /\ isConnected' = FALSE
       /\ currentHeartRate' = Null
       /\ deviceName' = None
       /\ hrError' = <<>>
       /\ UNCHANGED << characteristicRef, persistedCharacteristic, notifying,
                       listenerAttached, connectPc, reconnectPc, instance, lossListeners,
                       pickerCalls, linksOpened, losses, hookCalls >>

\* disconnect(): stopNotifications() resolved; the rest of the function
DisconnectStopOk ==
  /\ disconnectPc = "stop"
  /\ disconnectPc' = "done"
  /\ characteristicRef' = None
  /\ persistedCharacteristic' = None
  /\ notifying' = FALSE
  /\ gattConnected' = FALSE
  /\ deviceRef' = None
  /\ persistedDevice' = None
  /\ isConnected' = IF route = "/workout" THEN FALSE ELSE isConnected
  /\ currentHeartRate' = IF route = "/workout" THEN Null ELSE currentHeartRate
  /\ deviceName' = IF route = "/workout" THEN None ELSE deviceName
  /\ hrError' = IF route = "/workout" THEN <<>> ELSE hrError
  /\ UNCHANGED << sessionVars, localStorage, remote, heartRateReadings, includeHeartRate,
                  listenerAttached, connectPc, reconnectPc, instance, lossListeners,
                  pickerCalls, linksOpened, losses, hookCalls, completionVars, arrivals, characteristicValue >>

\* disconnect(): stopNotifications() rejected; the catch block only logs
DisconnectStopFail ==
  /\ disconnectPc = "stop"
  /\ disconnectPc' = "failed"
  /\ UNCHANGED << sessionVars, localStorage, remote, heartRateReadings, includeHeartRate,
                  isConnected, currentHeartRate, deviceRef, characteristicRef,
                  persistedDevice, persistedCharacteristic, gattConnected, notifying,
                  listenerAttached, connectorVars, completionVars, arrivals, characteristicValue >>

\* -------------------------------------------------------- the connector
\* what every connector step leaves alone
pageVars ==
  << sessionVars, localStorage, remote, heartRateReadings, includeHeartRate,
     completionVars, arrivals, characteristicValue >>

\* the errors the platform rejects with
PlatformErrors ==
  { [name |-> "NotFoundError", message |-> "User cancelled the requestDevice() chooser."],
    [name |-> "SecurityError", message |-> "Must be handling a user gesture."],
    [name |-> "NetworkError", message |-> "Connection attempt failed."] }

NotFoundMessage ==
  << "No heart rate monitor found. Make sure your device is powered on and in pairing mode." >>

SecurityMessage == << "Bluetooth access denied. Please allow Bluetooth permissions." >>

\* a template literal: its fixed text, then err.message
ConnectionFailed(message) == << "Connection failed: ", message >>

ReconnectionFailed(message) == << "Reconnection failed: ", message >>

ErrorMessageGeneric(err) == ConnectionFailed(err.message)

\* the message connect() surfaces for an error
ErrorMessage(err) ==
  CASE err.name = "NotFoundError" -> NotFoundMessage
    [] err.name = "SecurityError" -> SecurityMessage
    [] OTHER -> ConnectionFailed(err.message)

\* no connect(), reconnect() or disconnect() is suspended at an await
ConnectorIdle == connectPc = "idle" /\ reconnectPc = "idle" /\ disconnectPc # "stop"

\* the Connect button: connect() up to requestDevice()
ConnectClick ==
  /\ Ready /\ route = "/workout"
  /\ ~isConnected
  /\ ConnectorIdle
  /\ pickerCalls < MaxPicks
  /\ pickerCalls' = pickerCalls + 1
  /\ hrError' = <<>>
  /\ connectPc' = "picker"
  /\ UNCHANGED << pageVars, isConnected, currentHeartRate, deviceRef, characteristicRef,
                  persistedDevice, persistedCharacteristic, gattConnected, notifying,
                  listenerAttached, disconnectPc, deviceName, reconnectPc, instance,
                  lossListeners, linksOpened, losses, hookCalls >>

\* connect(): the user chose a device; the handles are kept, the
\* gattserverdisconnected listener is added, gatt.connect() is awaited
ConnectDeviceChosen ==
  /\ connectPc = "picker"
  /\ connectPc' = "gatt"
  /\ deviceName' = Some("hrm")
  /\ deviceRef' = Some("hrm")
  /\ persistedDevice' = Some("hrm")
  /\ lossListeners' = lossListeners \cup {instance}
  /\ UNCHANGED << pageVars, isConnected, currentHeartRate, characteristicRef,
                  persistedCharacteristic, gattConnected, notifying, listenerAttached,
                  disconnectPc, hrError, reconnectPc, instance, pickerCalls, linksOpened,
                  losses, hookCalls >>

\* connect(): gatt.connect() resolved
ConnectGattOk ==
  /\ connectPc = "gatt"
  /\ connectPc' = "lookup"
  /\ gattConnected' = TRUE
  /\ linksOpened' = IF gattConnected THEN linksOpened ELSE linksOpened + 1
  /\ UNCHANGED << pageVars, isConnected, currentHeartRate, deviceRef, characteristicRef,
                  persistedDevice, persistedCharacteristic, notifying, listenerAttached,
                  disconnectPc, deviceName, hrError, reconnectPc, instance, lossListeners,
                  pickerCalls, losses, hookCalls >>

\* connect(): getPrimaryService() and getCharacteristic() resolved; the
\* characteristic is kept and startNotifications() is awaited
ConnectLookupOk ==
  /\ connectPc = "lookup"
  /\ gattConnected
  /\ connectPc' = "start"
  /\ characteristicRef' = Some("hrm-measurement")
  /\ persistedCharacteristic' = Some("hrm-measurement")
  /\ UNCHANGED << pageVars, isConnected, currentHeartRate, deviceRef, persistedDevice,
                  gattConnected, notifying, listenerAttached, disconnectPc, deviceName,
                  hrError, reconnectPc, instance, lossListeners, pickerCalls, linksOpened,
                  losses, hookCalls >>

\* connect(): startNotifications() resolved; the value listener is added
ConnectStartOk ==
  /\ connectPc = "start"
  /\ gattConnected
  /\ connectPc' = "idle"
  /\ notifying' = TRUE
  /\ listenerAttached' = TRUE
  /\ isConnected' = TRUE
  /\ UNCHANGED << pageVars, currentHeartRate, deviceRef, characteristicRef, persistedDevice,
                  persistedCharacteristic, gattConnected, disconnectPc, deviceName, hrError,
                  reconnectPc, instance, lossListeners, pickerCalls, linksOpened, losses,
                  hookCalls >>

\* connect(): an awaited call rejected; the catch block
ConnectFail(err) ==
  /\ connectPc # "idle"
  /\ connectPc' = "idle"
  /\ hrError' = ErrorMessage(err)
  /\ isConnected' = FALSE
  /\ currentHeartRate' = Null
  /\ UNCHANGED << pageVars, deviceRef, characteristicRef, persistedDevice,
                  persistedCharacteristic, gattConnected, notifying, listenerAttached,
                  disconnectPc, deviceName, reconnectPc, instance, lossListeners,
                  pickerCalls, linksOpened, losses, hookCalls >>

ReconnectStartAlwaysConnects ==
  IF deviceRef = None
  THEN UNCHANGED << hrError, reconnectPc >>
  ELSE /\ hrError' = <<>>
       /\ reconnectPc' = "gatt"

\* reconnect() up to its first await, for the instance that calls it
ReconnectStart ==
  IF deviceRef = None
  THEN UNCHANGED << hrError, reconnectPc >>
  ELSE /\ hrError' = <<>>
       /\ reconnectPc' = IF gattConnected THEN "lookup" ELSE "gatt"

\* reconnect(), from the Reconnect button or another caller of the hook
ReconnectCall ==
  /\ route = "/workout"
  /\ ConnectorIdle
  /\ hookCalls < MaxCalls
  /\ hookCalls' = hookCalls + 1
  /\ ReconnectStart
  /\ UNCHANGED << pageVars, isConnected, currentHeartRate, deviceRef, characteristicRef,
                  persistedDevice, persistedCharacteristic, gattConnected, notifying,
                  listenerAttached, disconnectPc, deviceName, connectPc, instance,
                  lossListeners, pickerCalls, linksOpened, losses >>

\* reconnect(): gatt.connect() resolved
ReconnectGattOk ==
  /\ reconnectPc = "gatt"
  /\ reconnectPc' = "lookup"
  /\ gattConnected' = TRUE
  /\ linksOpened' = IF gattConnected THEN linksOpened ELSE linksOpened + 1
  /\ UNCHANGED << pageVars, isConnected, currentHeartRate, deviceRef, characteristicRef,
                  persistedDevice, persistedCharacteristic, notifying, listenerAttached,
                  disconnectPc, deviceName, hrError, connectPc, instance, lossListeners,
                  pickerCalls, losses, hookCalls >>

\* reconnect(): getPrimaryService() and getCharacteristic() resolved
ReconnectLookupOk ==
  /\ reconnectPc = "lookup"
  /\ gattConnected
  /\ reconnectPc' = "start"
  /\ characteristicRef' = Some("hrm-measurement")
  /\ persistedCharacteristic' = Some("hrm-measurement")
  /\ UNCHANGED << pageVars, isConnected, currentHeartRate, deviceRef, persistedDevice,
                  gattConnected, notifying, listenerAttached, disconnectPc, deviceName,
                  hrError, connectPc, instance, lossListeners, pickerCalls, linksOpened,
                  losses, hookCalls >>

\* reconnect(): startNotifications() resolved; the value listener is added
ReconnectStartOk ==
  /\ reconnectPc = "start"
  /\ gattConnected
  /\ reconnectPc' = "idle"
  /\ notifying' = TRUE
  /\ listenerAttached' = TRUE
  /\ isConnected' = TRUE
  /\ UNCHANGED << pageVars, currentHeartRate, deviceRef, characteristicRef, persistedDevice,
                  persistedCharacteristic, gattConnected, disconnectPc, deviceName, hrError,
                  connectPc, instance, lossListeners, pickerCalls, linksOpened, losses,
                  hookCalls >>

\* reconnect(): an awaited call rejected; the catch block
ReconnectFail(err) ==
  /\ reconnectPc # "idle"
  /\ reconnectPc' = "idle"
  /\ hrError' = ReconnectionFailed(err.message)
  /\ isConnected' = FALSE
  /\ UNCHANGED << pageVars, currentHeartRate, deviceRef, characteristicRef, persistedDevice,
                  persistedCharacteristic, gattConnected, notifying, listenerAttached,
                  disconnectPc, deviceName, connectPc, instance, lossListeners, pickerCalls,
                  linksOpened, losses, hookCalls >>

\* disconnect(), from the Disconnect button or another caller of the hook
DisconnectCall ==
  /\ route = "/workout"
  /\ ConnectorIdle
  /\ DisconnectStart
  /\ UNCHANGED pageVars

LinkAfterUnmountClosed == FALSE

\* the link after the hook's unmount cleanup, which does not call disconnect()
LinkAfterUnmount == gattConnected

\* the user navigates away: the page is torn down. The hook's cleanup removes
\* the value listener and leaves the link open; the page's cleanup clears a
\* running interval
Teardown ==
  /\ route = "/workout"
  /\ ConnectorIdle
  /\ completePc = "idle"
  /\ instance < MaxRebuilds
  /\ route' = "/away"
  /\ listenerAttached' = IF characteristicRef # None THEN FALSE ELSE listenerAttached
  /\ gattConnected' = LinkAfterUnmount
  /\ intervals' = IF timerIntervalRef # Null THEN IntervalsAfterClear ELSE intervals
  /\ UNCHANGED << fetchVars, sessionExercises, currentExerciseIndex, inputVars, oneRmMode, historyVars,
                  activeTimerIndex, timeRemaining, currentSetTimerRuns, timerIntervalRef,
                  timerStartTimeRef, timerPlannedDurationRef, now, reloads, starts,
                  localStorage, remote, heartRateReadings, includeHeartRate,
                  openCompleteDialog, completingWorkout, completePc, completeClosure,
                  batchIndex, completionSteps, attempts, cancelVars, arrivals, characteristicValue,
                  isConnected, currentHeartRate, deviceRef, characteristicRef,
                  persistedDevice, persistedCharacteristic, notifying,
                  disconnectPc, connectorVars >>

\* the user comes back: a new page instance is built in the same tab. Its
\* state starts from the initialisers, its refs from the persisted handles, and
\* the mount effect restores the device name and, with the link still open,
\* calls reconnect()
Rebuild ==
  /\ route = "/away"
  /\ route' = "/workout"
  /\ instance' = instance + 1
  /\ loading' = TRUE
  /\ error' = None
  /\ session' = None
  /\ workoutPlan' = None
  /\ fetchPc' = "session"
  /\ sessionExercises' = ExercisesFromCache(localStorage)
  /\ currentExerciseIndex' = 0
  /\ LET p == PopulateEffect(ExercisesFromCache(localStorage), 0, "", "", FALSE)
     IN  currentReps' = p[1] /\ currentWeight' = p[2]
  /\ currentRpe' = ""
  /\ oneRmMode' = FALSE
  /\ exerciseHistoryCache' = [v \in VersionIds |-> None]
  /\ historyFetches' = [v \in VersionIds |-> 0]
  /\ historyRequests' = [v \in VersionIds |-> 0]
  /\ activeTimerIndex' = Null
  /\ timeRemaining' = Null
  /\ currentSetTimerRuns' = <<>>
  /\ timerIntervalRef' = Null
  /\ timerStartTimeRef' = Null
  /\ timerPlannedDurationRef' = Null
  /\ heartRateReadings' = ReadingsFromCache(localStorage)
  /\ includeHeartRate' = FALSE
  /\ openCompleteDialog' = FALSE
  /\ completingWorkout' = FALSE
  /\ completePc' = "idle"
  /\ completeClosure' = NoClosure
  /\ batchIndex' = 0
  /\ completionSteps' = <<>>
  /\ isConnected' = FALSE
  /\ currentHeartRate' = Null
  /\ hrError' = <<>>
  /\ deviceRef' = persistedDevice
  /\ characteristicRef' = persistedCharacteristic
  /\ deviceName' = persistedDevice
  /\ reconnectPc' = IF persistedDevice # None /\ gattConnected THEN "lookup" ELSE "idle"
  /\ UNCHANGED << localStorage, remote, now, reloads, starts, intervals, attempts, cancelVars, arrivals, characteristicValue,
                  persistedDevice, persistedCharacteristic, gattConnected, notifying,
                  listenerAttached, disconnectPc, connectPc, lossListeners, pickerCalls,
                  linksOpened, losses, hookCalls >>

\* handleAddSet when localStorage.setItem throws in the save effect (a full
\* quota): the set is in the state the render committed, the effect's error is
\* caught by nothing, and React unmounts the tree, running the cleanups
AddSetSaveThrows ==
  /\ route = "/workout"
  /\ Ready
  /\ TotalSets(sessionExercises) < MaxSets
  /\ ~AddSetDisabled
  /\ Len(sessionExercises) > 0
  /\ LET newSet ==
           [reps |-> ParseInt(currentReps),
            weight |-> IF currentWeight # "" THEN ParseFloat(currentWeight) ELSE Null,
            completed_at |-> now,
            rpe |-> IF currentRpe # "" THEN ParseInt(currentRpe) ELSE Null,
            notes |-> Null,
            timer_runs |-> AttachedRuns(currentSetTimerRuns)]
     IN  sessionExercises' =
           [sessionExercises EXCEPT ![currentExerciseIndex + 1].sets = Append(@, newSet)]
  /\ currentSetTimerRuns' = <<>>
  /\ currentReps' = IF oneRmMode THEN "1" ELSE PlannedRepsText(CurrentExercise)
  /\ currentWeight' = IF oneRmMode THEN "" ELSE PlannedWeightText(CurrentExercise)
  /\ currentRpe' = ""
  /\ route' = "crashed"
  /\ listenerAttached' = IF characteristicRef # None THEN FALSE ELSE listenerAttached
  /\ intervals' = IF timerIntervalRef # Null THEN IntervalsAfterClear ELSE intervals
  /\ UNCHANGED << fetchVars, currentExerciseIndex, oneRmMode, historyVars, activeTimerIndex,
                  timeRemaining, timerIntervalRef, timerStartTimeRef,
                  timerPlannedDurationRef, now, reloads, starts,
                  localStorage, remote, heartRateReadings, includeHeartRate,
                  openCompleteDialog, completingWorkout, completePc, completeClosure,
                  batchIndex, completionSteps, attempts, cancelVars, arrivals, characteristicValue,
                  isConnected, currentHeartRate, deviceRef, characteristicRef,
                  persistedDevice, persistedCharacteristic, gattConnected, notifying,
                  disconnectPc, connectorVars >>

\* a notification whose reading is appended while localStorage.setItem throws:
\* the updater catches the error and returns the new stream
NotifySaveThrows(v) ==
  /\ route = "/workout"
  /\ listenerAttached /\ notifying
  /\ arrivals < MaxArrivals
  /\ v # currentHeartRate /\ Truthy(v) /\ isConnected
  /\ arrivals' = arrivals + 1
  /\ characteristicValue' = Uint8Payload(v)
  /\ currentHeartRate' = v
  /\ heartRateReadings' = Append(heartRateReadings, Reading(Len(heartRateReadings) + 1, v))
  /\ UNCHANGED << sessionVars, localStorage, remote, includeHeartRate, isConnected, deviceRef,
                  characteristicRef, persistedDevice, persistedCharacteristic,
                  gattConnected, notifying, listenerAttached, disconnectPc, connectorVars,
                  completionVars >>

\* a session on the page with no device paired yet
InitSensor ==
  /\ localStorage = [exercises |-> None, heart_rate |-> None]
  /\ remote = NewRemote("p1", <<>>)
  /\ now = 0
  /\ reloads = 0
  /\ starts = 0
  /\ arrivals = 0
  /\ attempts = 0
  /\ instance = 0
  /\ Mounted(localStorage)
  /\ NoSensor

NextSensor ==
  \/ route = "/workout" /\ FetchSessionOk
  \/ route = "/workout" /\ FetchPlanOk
  \/ route = "/workout" /\ AddSet
  \/ AddSetSaveThrows
  \/ \E v \in HeartRates : NotifySaveThrows(v)
  \/ ConnectClick
  \/ ConnectDeviceChosen
  \/ ConnectGattOk
  \/ ConnectLookupOk
  \/ ConnectStartOk
  \/ \E err \in PlatformErrors : ConnectFail(err)
  \/ ReconnectCall
  \/ ReconnectGattOk
  \/ ReconnectLookupOk
  \/ ReconnectStartOk
  \/ \E err \in PlatformErrors : ReconnectFail(err)
  \/ DisconnectCall
  \/ DisconnectStopOk
  \/ DisconnectStopFail
  \/ LinkLost
  \/ \E v \in HeartRates : Notify(v)
  \/ Teardown
  \/ Rebuild

SpecSensor == InitSensor /\ [][NextSensor]_vars

\* ------------------------------------------------------------ completion
BATCH_SIZE == 150

\* Array.prototype.slice(from, to) with 0 <= from <= to
SliceJs(a, from, to) ==
  LET end == IF to < Len(a) THEN to ELSE Len(a)
  IN  IF from >= end THEN <<>> ELSE SubSeq(a, from + 1, end)

RECURSIVE BatchesFrom(_, _)
BatchesFrom(readings, i) ==
  IF i < Len(readings)
  THEN <<SliceJs(readings, i, i + BATCH_SIZE)>> \o BatchesFrom(readings, i + BATCH_SIZE)
  ELSE <<>>

BatchesDropTail(readings) ==
  [b \in 1..(Len(readings) \div BATCH_SIZE) |->
     SliceJs(readings, (b - 1) * BATCH_SIZE, b * BATCH_SIZE)]

\* the batches handleCompleteWorkout builds
Batches(readings) == BatchesFrom(readings, 0)

\* the sum of the values of readings[lo..hi], summed by halves
RECURSIVE SumValues(_, _, _)
SumValues(readings, lo, hi) ==
  IF lo > hi THEN 0
  ELSE IF lo = hi THEN readings[lo].value
  ELSE LET mid == (lo + hi) \div 2
       IN  SumValues(readings, lo, mid) + SumValues(readings, mid + 1, hi)

\* Math.round of a non-negative quotient
RoundedQuotient(a, b) == (2 * a + b) \div (2 * b)

\* the summary sent before the batches
GarminData(readings) ==
  LET values == {readings[i].value : i \in 1..Len(readings)}
  IN  [avg_heart_rate |-> RoundedQuotient(SumValues(readings, 1, Len(readings)), Len(readings)),
       max_heart_rate |-> CHOOSE v \in values : \A w \in values : w <= v,
       min_heart_rate |-> CHOOSE v \in values : \A w \in values : v <= w,
       has_heart_rate |-> TRUE]

\* the exercises payload, as the request body carries it
ExercisesData(exs) ==
  [i \in 1..Len(exs) |->
     [exercise_version_id |-> exs[i].exercise_version_id,
      sets |-> JsonStringifySets(exs[i].sets)]]

\* one step handleCompleteWorkout has taken
Step(call, index) == [call |-> call, index |-> index]

AwaitedCallsAndRefresh == {"exercises", "summary", "batch", "complete", "refresh"}

\* the awaited calls of handleCompleteWorkout that can reject
AwaitedCalls == {"exercises", "summary", "batch", "complete"}

\* the Complete Workout button of the page
OpenCompleteDialog ==
  /\ Ready /\ route = "/workout"
  /\ ~openCompleteDialog
  /\ openCompleteDialog' = TRUE
  /\ UNCHANGED << sessionVars, localStorage, remote, heartRateReadings, includeHeartRate,
                  sensorVars, completingWorkout, completePc, completeClosure, batchIndex,
                  completionSteps, route, attempts, cancelVars, arrivals, characteristicValue >>

\* the Cancel button of the dialog, or a click outside it
CloseCompleteDialog ==
  /\ route = "/workout"
  /\ openCompleteDialog /\ ~completingWorkout
  /\ openCompleteDialog' = FALSE
  /\ UNCHANGED << sessionVars, localStorage, remote, heartRateReadings, includeHeartRate,
                  sensorVars, completingWorkout, completePc, completeClosure, batchIndex,
                  completionSteps, route, attempts, cancelVars, arrivals, characteristicValue >>

\* the "Include heart rate data" switch
ToggleIncludeHeartRate ==
  /\ route = "/workout"
  /\ openCompleteDialog /\ ~completingWorkout
  /\ Len(heartRateReadings) > 0
  /\ includeHeartRate' = ~includeHeartRate
  /\ UNCHANGED << sessionVars, localStorage, remote, heartRateReadings, sensorVars,
                  completionVars, arrivals, characteristicValue >>

\* handleCompleteWorkout up to its first await
CompleteClick ==
  /\ Ready /\ route = "/workout"
  /\ openCompleteDialog /\ ~completingWorkout
  /\ attempts < MaxAttempts
  /\ attempts' = attempts + 1
  /\ completingWorkout' = TRUE
  /\ completeClosure' = [exercises |-> ExercisesData(sessionExercises),
                         readings |-> heartRateReadings,
                         include |-> includeHeartRate,
                         connected |-> isConnected]
  /\ completePc' = "exercises"
  /\ batchIndex' = 0
  /\ completionSteps' = <<>>
  /\ UNCHANGED << sessionVars, localStorage, remote, heartRateReadings, includeHeartRate,
                  sensorVars, openCompleteDialog, route, cancelVars, arrivals, characteristicValue >>

IncludesHeartRateIfAny(closure) == Len(closure.readings) > 0

\* includeHeartRate && heartRateReadings.length > 0, on the values the handler
\* closed over
IncludesHeartRate(closure) == closure.include /\ Len(closure.readings) > 0

\* PATCH /api/workout-sessions/{id} {exercises} answered
PatchExercisesOk ==
  /\ completePc = "exercises"
  /\ remote' = [remote EXCEPT !.exercises = completeClosure.exercises]
  /\ completionSteps' = Append(completionSteps, Step("exercises", 0))
  /\ completePc' = IF IncludesHeartRate(completeClosure) THEN "summary" ELSE "complete"
  /\ UNCHANGED << sessionVars, localStorage, heartRateReadings, includeHeartRate,
                  sensorVars, openCompleteDialog, completingWorkout, completeClosure,
                  batchIndex, route, attempts, cancelVars, arrivals, characteristicValue >>

\* PATCH /api/workout-sessions/{id} {garmin_data} answered
PatchSummaryOk ==
  /\ completePc = "summary"
  /\ remote' = [remote EXCEPT !.garmin_data = Some(GarminData(completeClosure.readings))]
  /\ completionSteps' = Append(completionSteps, Step("summary", 0))
  /\ completePc' = IF Len(Batches(completeClosure.readings)) > 0 THEN "batch" ELSE "complete"
  /\ batchIndex' = 0
  /\ UNCHANGED << sessionVars, localStorage, heartRateReadings, includeHeartRate,
                  sensorVars, openCompleteDialog, completingWorkout, completeClosure,
                  route, attempts, cancelVars, arrivals, characteristicValue >>

\* POST /api/workout-sessions/{id}/heart-rate-batch/{i} answered
BatchOk ==
  /\ completePc = "batch"
  /\ LET batches == Batches(completeClosure.readings)
         stored == remote.heart_rate_batches
     IN  /\ remote' =
               [remote EXCEPT !.heart_rate_batches =
                  IF batchIndex < Len(stored)
                  THEN [stored EXCEPT ![batchIndex + 1] = batches[batchIndex + 1]]
                  ELSE Append(stored, batches[batchIndex + 1])]
         /\ IF batchIndex + 1 < Len(batches)
            THEN batchIndex' = batchIndex + 1 /\ completePc' = "batch"
            ELSE batchIndex' = batchIndex /\ completePc' = "complete"
  /\ completionSteps' = Append(completionSteps, Step("batch", batchIndex))
  /\ UNCHANGED << sessionVars, localStorage, heartRateReadings, includeHeartRate,
                  sensorVars, openCompleteDialog, completingWorkout, completeClosure,
                  route, attempts, cancelVars, arrivals, characteristicValue >>

\* POST /api/workout-sessions/{id}/complete answered: the caches are removed and
\* disconnect() is called, without await, up to its first await
CompleteOk ==
  /\ completePc = "complete"
  /\ remote' = [remote EXCEPT !.completed = TRUE]
  /\ localStorage' = [exercises |-> None, heart_rate |-> None]
  /\ completePc' = "refresh"
  /\ IF completeClosure.connected
     THEN /\ completionSteps' =
               completionSteps \o << Step("complete", 0), Step("clear", 0), Step("disconnect", 0) >>
          /\ DisconnectStart
     ELSE /\ completionSteps' = completionSteps \o << Step("complete", 0), Step("clear", 0) >>
          /\ UNCHANGED sensorVars
  /\ UNCHANGED << sessionVars, heartRateReadings, includeHeartRate, openCompleteDialog,
                  completingWorkout, completeClosure, batchIndex, route, attempts, cancelVars, arrivals, characteristicValue >>

\* refreshHistory() settled: the dialog closes, the router leaves the page and
\* the page's cleanups run
RefreshDone ==
  /\ completePc = "refresh"
  /\ completePc' = "done"
  /\ openCompleteDialog' = FALSE
  /\ route' = "/history"
  /\ completionSteps' = Append(completionSteps, Step("navigate", 0))
  /\ listenerAttached' = IF characteristicRef # None THEN FALSE ELSE listenerAttached
  /\ UNCHANGED << sessionVars, localStorage, remote, heartRateReadings, includeHeartRate,
                  isConnected, currentHeartRate, deviceRef, characteristicRef,
                  persistedDevice, persistedCharacteristic, gattConnected, notifying,
                  disconnectPc, connectorVars, completingWorkout, completeClosure,
                  batchIndex, attempts, cancelVars, arrivals, characteristicValue >>

\* an awaited call rejected: the catch block
CompletionFail ==
  /\ completePc \in AwaitedCalls
  /\ completePc' = "idle"
  /\ completingWorkout' = FALSE
  /\ UNCHANGED << sessionVars, localStorage, remote, heartRateReadings, includeHeartRate,
                  sensorVars, openCompleteDialog, completeClosure, batchIndex,
                  completionSteps, route, attempts, cancelVars, arrivals, characteristicValue >>

\* the lengths of the reading stream a completion starts from
ReadingCounts ==
  {n \in 0..MaxReadings : \/ n <= 1
                          \/ n % BATCH_SIZE = 0
                          \/ n \in {BATCH_SIZE - 1, BATCH_SIZE + 1}
                          \/ n = MaxReadings}

\* a workout in progress on a page that was reloaded and has finished
\* fetchWorkoutData: the exercise list is the one fetchWorkoutData installed, the
\* readings are those of the cache, the sensor is paired or not
InitComplete ==
  /\ remote = NewRemote("p1", <<>>)
  /\ \E n \in ReadingCounts :
       /\ heartRateReadings = Stream(n)
       /\ localStorage =
            [exercises |-> Some(JsonStringify(ExercisesFromServer(remote, PlanData))),
             heart_rate |-> IF n = 0 THEN None ELSE Some(JsonStringifyReadings(Stream(n)))]
  /\ loading = FALSE
  /\ error = None
  /\ session = Some(remote)
  /\ workoutPlan = Some(PlanData)
  /\ fetchPc = "done"
  /\ sessionExercises = ExercisesFromServer(remote, PlanData)
  /\ currentExerciseIndex = 0
  /\ LET p == PopulateEffect(sessionExercises, 0, "", "", FALSE)
     IN  currentReps = p[1] /\ currentWeight = p[2]
  /\ currentRpe = ""
  /\ oneRmMode = FALSE
  /\ exerciseHistoryCache = [v \in VersionIds |-> None]
  /\ historyFetches = [v \in VersionIds |-> 0]
  /\ historyRequests = [v \in VersionIds |-> 0]
  /\ activeTimerIndex = Null
  /\ timeRemaining = Null
  /\ currentSetTimerRuns = <<>>
  /\ timerIntervalRef = Null
  /\ timerStartTimeRef = Null
  /\ timerPlannedDurationRef = Null
  /\ intervals = {}
  /\ includeHeartRate = FALSE
  /\ openCompleteDialog = FALSE
  /\ completingWorkout = FALSE
  /\ completePc = "idle"
  /\ completeClosure = NoClosure
  /\ batchIndex = 0
  /\ completionSteps = <<>>
  /\ route = "/workout"
  /\ openCancelDialog = FALSE
  /\ cancelPc = "idle"
  /\ cancelClosure = FALSE
  /\ now = 0
  /\ reloads = 1
  /\ starts = 0
  /\ arrivals = 0
  /\ attempts = 0
  /\ instance = 1
  /\ (Connected \/ NoSensor)

NextComplete ==
  \/ (~openCompleteDialog /\ route = "/workout" /\ AddSet)
  \/ OpenCompleteDialog
  \/ CloseCompleteDialog
  \/ ToggleIncludeHeartRate
  \/ CompleteClick
  \/ PatchExercisesOk
  \/ PatchSummaryOk
  \/ BatchOk
  \/ CompleteOk
  \/ RefreshDone
  \/ CompletionFail
  \/ \E v \in HeartRates : Notify(v)
  \/ LinkLost
  \/ DisconnectStopOk
  \/ DisconnectStopFail

SpecComplete == InitComplete /\ [][NextComplete]_vars

\* ------------------------------------------------------------- decoding
\* the values of a byte
Bytes == 0..255

\* the bytes tried in the rate field
RateBytes == {0, 1, 72, 255}

\* Heart Rate Measurement values: every flags byte, followed by a one-byte rate
\* when bit 0 of the flags is clear, by two bytes (a 16-bit rate, or an 8-bit
\* rate and the first byte of a further field) otherwise or as well
Payloads ==
  {<< flags, b1 >> : flags \in {f \in Bytes : f % 2 = 0}, b1 \in RateBytes}
    \cup {<< flags, b1, b2 >> : flags \in Bytes, b1 \in RateBytes, b2 \in RateBytes}

\* the first notification of a Connected sensor, carrying any of the values
DecodeFirstNotification ==
  /\ route = "/workout"
  /\ listenerAttached /\ notifying
  /\ characteristicValue = <<>>
  /\ arrivals < MaxArrivals
  /\ arrivals' = arrivals + 1
  /\ \E value \in Payloads : HandleHeartRateChange(value)
  /\ UNCHANGED << sessionVars, remote, includeHeartRate, isConnected, deviceRef,
                  characteristicRef, persistedDevice, persistedCharacteristic,
                  gattConnected, notifying, listenerAttached, disconnectPc, connectorVars,
                  completionVars >>

NextDecode == DecodeFirstNotification

SpecDecode == InitComplete /\ [][NextDecode]_vars

\* ---------------------------------------------------------- cancellation
\* handleCancelWorkout, from the Cancel button of the page
OpenCancelDialog ==
  /\ Ready /\ route = "/workout"
  /\ ~openCompleteDialog /\ ~openCancelDialog
  /\ openCancelDialog' = TRUE
  /\ UNCHANGED << sessionVars, localStorage, remote, heartRateReadings, includeHeartRate,
                  sensorVars, openCompleteDialog, completingWorkout, completePc,
                  completeClosure, batchIndex, completionSteps, route, attempts,
                  cancelPc, cancelClosure, arrivals, characteristicValue >>

\* the Keep Workout button of the dialog, or a click outside it
CloseCancelDialog ==
  /\ route = "/workout"
  /\ openCancelDialog
  /\ openCancelDialog' = FALSE
  /\ UNCHANGED << sessionVars, localStorage, remote, heartRateReadings, includeHeartRate,
                  sensorVars, openCompleteDialog, completingWorkout, completePc,
                  completeClosure, batchIndex, completionSteps, route, attempts,
                  cancelPc, cancelClosure, arrivals, characteristicValue >>

\* handleConfirmCancelWorkout up to its await: DELETE /api/workout-sessions/{id}
CancelConfirm ==
  /\ route = "/workout"
  /\ openCancelDialog
  /\ cancelPc = "idle"
  /\ attempts < MaxAttempts
  /\ attempts' = attempts + 1
  /\ cancelPc' = "delete"
  /\ cancelClosure' = isConnected
  /\ UNCHANGED << sessionVars, localStorage, remote, heartRateReadings, includeHeartRate,
                  sensorVars, openCompleteDialog, completingWorkout, completePc,
                  completeClosure, batchIndex, completionSteps, route,
                  openCancelDialog, arrivals, characteristicValue >>

\* the DELETE answered: the caches are removed, disconnect() is called without
\* await when the closure's isConnected is true, the dialog closes, the router
\* leaves for /plans and the cleanups of the page run
CancelDeleteOk ==
  /\ cancelPc = "delete"
  /\ route = "/workout"
  /\ cancelPc' = "done"
  /\ remote' = [remote EXCEPT !.deleted = TRUE]
  /\ localStorage' = [exercises |-> None, heart_rate |-> None]
  /\ openCancelDialog' = FALSE
  /\ route' = "/plans"
  /\ intervals' = IF timerIntervalRef # Null THEN IntervalsAfterClear ELSE intervals
  /\ IF cancelClosure
     THEN DisconnectStart
     ELSE /\ listenerAttached' = IF characteristicRef # None THEN FALSE ELSE listenerAttached
          /\ UNCHANGED << isConnected, currentHeartRate, deviceRef, characteristicRef,
                          persistedDevice, persistedCharacteristic, gattConnected, notifying,
                          disconnectPc, connectorVars >>
  /\ UNCHANGED << fetchVars, sessionExercises, currentExerciseIndex, inputVars, oneRmMode, historyVars,
                  activeTimerIndex, timeRemaining, currentSetTimerRuns, timerIntervalRef,
                  timerStartTimeRef, timerPlannedDurationRef, now, reloads, starts,
                  heartRateReadings, includeHeartRate, openCompleteDialog,
                  completingWorkout, completePc, completeClosure, batchIndex,
                  completionSteps, attempts, cancelClosure, arrivals, characteristicValue >>

\* the DELETE rejected: the catch block only logs
CancelDeleteFail ==
  /\ cancelPc = "delete"
  /\ route = "/workout"
  /\ cancelPc' = "idle"
  /\ UNCHANGED << sessionVars, localStorage, remote, heartRateReadings, includeHeartRate,
                  sensorVars, openCompleteDialog, completingWorkout, completePc,
                  completeClosure, batchIndex, completionSteps, route, attempts,
                  openCancelDialog, cancelClosure, arrivals, characteristicValue >>

NextCancel ==
  \/ (~openCancelDialog /\ route = "/workout" /\ AddSet)
  \/ OpenCancelDialog
  \/ CloseCancelDialog
  \/ CancelConfirm
  \/ CancelDeleteOk
  \/ CancelDeleteFail
  \/ \E v \in HeartRates : Notify(v)
  \/ LinkLost
  \/ DisconnectStopOk
  \/ DisconnectStopFail

SpecCancel == InitComplete /\ [][NextCancel]_vars

\* ------------------------------------------------------ the merge on load
\* the plans a session can have been started from: the plan editor appends an
\* exercise without looking for its exercise_version_id among those already
\* in the plan, so the same version can stand in a plan twice
PlanChoices ==
  { [id |-> "p1", exercises |-> << PlanExercises[i] >>] : i \in 1..2 } \cup
  { [id |-> "p1", exercises |-> << PlanExercises[i], PlanExercises[j] >>] :
      i \in 1..2, j \in 1..2 }

\* the sets the remote store may hold for one exercise
SetsChoices ==
  { <<>>, <<ServerSet>>,
    << [reps |-> 8, weight |-> Null, completed_at |-> 1, rpe |-> Null, notes |-> Null] >> }

\* the exercises a PATCH of the page has written for a session of the plan:
\* one entry per plan exercise, in plan order, with the sets logged for it
WrittenFrom(planData) ==
  LET n == Len(planData.exercises)
  IN  { [i \in 1..n |-> [exercise_version_id |-> planData.exercises[i].exercise_version_id,
                          sets |-> sets[i]]] : sets \in [1..n -> SetsChoices] }

InitMerge ==
  /\ localStorage = [exercises |-> None, heart_rate |-> None]
  /\ remote \in { NewRemote("p1", exs) :
                     exs \in { <<>> } \cup UNION { WrittenFrom(planData) : planData \in PlanChoices } }
  /\ now = 0
  /\ reloads = 0
  /\ starts = 0
  /\ arrivals = 0
  /\ attempts = 0
  /\ instance = 0
  /\ Mounted(localStorage)
  /\ NoSensor

NextMerge ==
  \/ FetchSessionOk
  \/ FetchFail
  \/ \E planData \in PlanChoices :
       \* the plan is the one the exercises of the session were written from
       /\ remote.exercises = <<>> \/ remote.exercises \in WrittenFrom(planData)
       /\ FetchPlanAnswered(planData)

SpecMerge == InitMerge /\ [][NextMerge]_vars

\* ---------------------------------------------------- deleting a set
\* sets the remote store holds when the page is opened; the second carries
\* the timer run that was attached to it
StoredSets ==
  << ServerSet,
     [reps |-> 8, weight |-> 135, completed_at |-> 1, rpe |-> Null, notes |-> Null,
      timer_runs |-> ArrayValue(<< [started_at |-> 0, duration_seconds |-> 2,
                                    planned_duration_seconds |-> 2, completed |-> TRUE] >>)],
     [reps |-> 10, weight |-> 140, completed_at |-> 2, rpe |-> 8, notes |-> Null] >>

\* a session resumed with three sets stored for the first exercise and one
\* for the second
InitSets ==
  /\ localStorage = [exercises |-> None, heart_rate |-> None]
  /\ remote = NewRemote("p1", << [exercise_version_id |-> "v1", sets |-> StoredSets],
                                 [exercise_version_id |-> "v2", sets |-> <<ServerSet>>] >>)
  /\ now = 0
  /\ reloads = 0
  /\ starts = 0
  /\ arrivals = 0
  /\ attempts = 0
  /\ instance = 0
  /\ Mounted(localStorage)
  /\ NoSensor

NextSets ==
  \/ FetchSessionOk
  \/ FetchPlanOk
  \/ \E v \in RepsInputs : SetReps(v)
  \/ \E s \in 0..(Len(StoredSets) - 1) : DeleteSet(currentExerciseIndex, s)
  \/ \E i \in 0..1 : StartTimer(i)
  \/ StopTimer
  \/ TimerTick
  \/ \E i \in 0..1 : ChangeExercise(i)

SpecSets == InitSets /\ [][NextSets]_vars

\* ------------------------------------------------- the completion signal
\* the interval callback at the last second when playNotificationSound() or
\* showNotification() throws (no AudioContext, or a platform that refuses
\* new Notification()): the calls stand inside the setTimeRemaining updater,
\* after the interval and the refs were cleared; the updater's error comes
\* up in the render, no state of that render is committed, nothing catches
\* it, and React unmounts the tree, running the cleanups.  A signal that
\* fails without throwing (a suspended AudioContext, a rejected permission
\* request) is TimerTick.
TimerTickSignalThrows ==
  /\ route = "/workout"
  /\ intervals # {}
  /\ now < MaxClock
  /\ LastTick(timeRemaining)
  /\ now' = now + 1
  /\ intervals' = IntervalsAfterClear
  /\ timerIntervalRef' = Null
  /\ timerStartTimeRef' = Null
  /\ timerPlannedDurationRef' = Null
  /\ route' = "crashed"
  /\ listenerAttached' = IF characteristicRef # None THEN FALSE ELSE listenerAttached
  /\ UNCHANGED << fetchVars, sessionExercises, currentExerciseIndex, inputVars, oneRmMode,
                  historyVars, activeTimerIndex, timeRemaining, currentSetTimerRuns,
                  reloads, starts,
                  localStorage, remote, heartRateReadings, includeHeartRate,
                  openCompleteDialog, completingWorkout, completePc, completeClosure,
                  batchIndex, completionSteps, attempts, cancelVars, arrivals, characteristicValue,
                  isConnected, currentHeartRate, deviceRef, characteristicRef,
                  persistedDevice, persistedCharacteristic, gattConnected, notifying,
                  disconnectPc, connectorVars >>

NextSignal ==
  \/ route = "/workout" /\ FetchSessionOk
  \/ route = "/workout" /\ FetchPlanOk
  \/ route = "/workout" /\ \E v \in RepsInputs : SetReps(v)
  \/ route = "/workout" /\ AddSet
  \/ route = "/workout" /\ \E i \in 0..1 : StartTimer(i)
  \/ route = "/workout" /\ StopTimer
  \/ route = "/workout" /\ TimerTick
  \/ TimerTickSignalThrows
  \/ route = "/workout" /\ \E i \in 0..1 : ChangeExercise(i)

SpecSignal == Init /\ [][NextSignal]_vars

\* -------------------------------------------------------------- properties
\* every timer run the page holds: pending, or attached to a set in memory
RunsOfSet(st) ==
  LET r == Prop(st, "timer_runs")
  IN  IF r.defined THEN {r.items[k] : k \in 1..Len(r.items)} ELSE {}

AllRuns ==
  {currentSetTimerRuns[k] : k \in 1..Len(currentSetTimerRuns)}
  \cup UNION {UNION {RunsOfSet(sessionExercises[i].sets[j]) :
                      j \in 1..Len(sessionExercises[i].sets)} :
               i \in 1..Len(sessionExercises)}

\* the timer runs a set carries, in order
RunsSeq(st) ==
  LET r == Prop(st, "timer_runs")
  IN  IF r.defined THEN r.items ELSE <<>>

\* C1: when the local cache holds an exercise entry for the session, the list in
\* memory once fetchWorkoutData has finished is the cached entry, and the entry
\* has not been rewritten from server data.
C1_CacheTakesPrecedence ==
  [][(fetchPc # "done" /\ fetchPc' = "done" /\ localStorage.exercises # None)
       => /\ SameExercises(sessionExercises', JsonParse(localStorage.exercises[1]))
          /\ localStorage'.exercises = localStorage.exercises]_vars

C3_AddSetRejected ==
  [][(AddSet /\ (activeTimerIndex # Null \/ currentReps = ""))
       => UNCHANGED << sessionExercises, currentSetTimerRuns, localStorage >>]_vars

\* a timer is Running, reps are filled in, and Add Set can be clicked
C3_Witness ==
  /\ Ready
  /\ activeTimerIndex # Null
  /\ currentReps # ""
  /\ TotalSets(sessionExercises) < MaxSets

\* C4: when an awaited call of the completion sequence rejects, the two cache
\* entries, the exercise list, the reading stream and the sensor are as they were,
\* the caches still hold the session, disconnect() was never called, the page
\* stays on the workout route and the Complete button is enabled again.
C4_FailureKeepsSession ==
  [][CompletionFail
       => /\ UNCHANGED << localStorage, sessionExercises, heartRateReadings, sensorVars, route >>
          /\ localStorage'.exercises = Some(JsonStringify(sessionExercises'))
          /\ Len(heartRateReadings') > 0
               => localStorage'.heart_rate = Some(JsonStringifyReadings(heartRateReadings'))
          /\ disconnectPc' = "idle"
          /\ route' = "/workout"
          /\ openCompleteDialog' /\ ~completingWorkout']_vars

\* an attempt failed after the first of three batches was stored; the sensor is
\* still connected and both cache entries are present
C4_Witness ==
  /\ attempts >= 1
  /\ completePc = "idle"
  /\ ~completingWorkout /\ openCompleteDialog
  /\ Len(Batches(completeClosure.readings)) = 3
  /\ Len(remote.heart_rate_batches) = 1
  /\ isConnected /\ listenerAttached
  /\ localStorage.exercises # None /\ localStorage.heart_rate # None

\* C5: the page leaves for the history route only after every step of the
\* completion sequence, the disconnect of a Connected sensor included, is over.
C5_NavigationAfterDisconnect ==
  (route = "/history" /\ completeClosure.connected) => disconnectPc = "done"

RECURSIVE Concat(_)
Concat(chunks) == IF chunks = <<>> THEN <<>> ELSE Head(chunks) \o Concat(Tail(chunks))

\* C6: once the uploads of a completion that includes N >= 1 readings are over,
\* the batch calls made were those of indices 0..ceil(N/150)-1 in ascending order,
\* the store holds ceil(N/150) batches of 1 to 150 readings, all but the last of
\* 150, and their concatenation is the stream the completion started from.
C6_Chunking ==
  (/\ completePc \in {"complete", "refresh", "done"}
   /\ completeClosure.include
   /\ Len(completeClosure.readings) >= 1)
    => LET N == Len(completeClosure.readings)
           count == (N + 149) \div 150
           chunks == remote.heart_rate_batches
           calls == SelectSeq(completionSteps, LAMBDA st : st.call = "batch")
       IN  /\ Len(calls) = count
           /\ \A k \in 1..Len(calls) : calls[k].index = k - 1
           /\ Len(chunks) = count
           /\ \A k \in 1..Len(chunks) :
                /\ 1 <= Len(chunks[k]) /\ Len(chunks[k]) <= 150
                /\ k < Len(chunks) => Len(chunks[k]) = 150
           /\ Concat(chunks) = completeClosure.readings

\* a completion of the longest stream went through: three batches, the last one
\* holding what the first two left
C6_Witness ==
  /\ completePc = "done"
  /\ completeClosure.include
  /\ Len(completeClosure.readings) = MaxReadings
  /\ Len(remote.heart_rate_batches) = 3
  /\ Len(remote.heart_rate_batches[1]) = 150
  /\ Len(remote.heart_rate_batches[2]) = 150
  /\ Len(remote.heart_rate_batches[3]) = MaxReadings - 300

\* C7: at most one tick interval is live, and activeTimerIndex is non-null exactly
\* when an interval is live, held by timerIntervalRef, with the start instant and
\* the planned duration recorded.
C7_OneTimerRunning ==
  /\ Cardinality(intervals) <= 1
  /\ (activeTimerIndex # Null) <=> (intervals # {})
  /\ intervals # {} =>
       /\ intervals = {timerIntervalRef}
       /\ timerStartTimeRef # Null
       /\ timerPlannedDurationRef # Null

\* a second timer was started while the first was running
C7_Witness ==
  /\ starts = 2
  /\ activeTimerIndex = 1
  /\ Cardinality(intervals) = 1
  /\ Len(currentSetTimerRuns) = 1

\* C8: starting a timer while another one is Running appends exactly one run to
\* the pending list, with completed = false and the start instant and planned
\* duration of the first timer, and the second timer is Running afterwards.
C8_SupersededTimerRecorded ==
  [][\A i \in 0..1 :
       (StartTimer(i) /\ activeTimerIndex # Null)
         => /\ Len(currentSetTimerRuns') = Len(currentSetTimerRuns) + 1
            /\ SubSeq(currentSetTimerRuns', 1, Len(currentSetTimerRuns)) = currentSetTimerRuns
            /\ LET run == currentSetTimerRuns'[Len(currentSetTimerRuns')]
               IN  /\ run.completed = FALSE
                   /\ run.started_at = timerStartTimeRef
                   /\ run.planned_duration_seconds = timerPlannedDurationRef
            /\ activeTimerIndex' = i
            /\ timerStartTimeRef' = now]_vars

\* the second timer runs, the pending list holds the run of the first, which
\* started a second earlier
C8_Witness ==
  /\ starts = 2
  /\ activeTimerIndex = 1
  /\ Len(currentSetTimerRuns) = 1
  /\ currentSetTimerRuns[1].completed = FALSE
  /\ currentSetTimerRuns[1].planned_duration_seconds = 2
  /\ currentSetTimerRuns[1].started_at < timerStartTimeRef

\* C9: every recorded timer run has actual = planned when completed, and
\* 0 <= actual < planned when not completed.
C9_RunDurations ==
  \A r \in AllRuns :
    IF r.completed
    THEN r.duration_seconds = r.planned_duration_seconds
    ELSE 0 <= r.duration_seconds /\ r.duration_seconds < r.planned_duration_seconds

\* a completed run and a run stopped after at least one tick are both recorded
C9_Witness ==
  /\ \E r \in AllRuns : r.completed
  /\ \E r \in AllRuns : ~r.completed /\ r.duration_seconds > 0

\* C10: after changeExercise the timer is Idle and the pending list is empty,
\* whether or not a timer was Running.
C10_SwitchDiscardsRuns ==
  [][\A i \in 0..1 :
       ChangeExercise(i)
         => /\ activeTimerIndex' = Null
            /\ intervals' = {}
            /\ currentSetTimerRuns' = <<>>]_vars

\* C11: within a page instance, every step that ends a timer appends its run to
\* the pending list and keeps the runs already there in order; an accepted addSet
\* gives the new set the whole pending list in that order, leaves every other set
\* as it was and empties the pending list; and the pending list only loses runs
\* through addSet, an exercise switch, or the teardown of the page.
C11_RunsAttachedToNextSet ==
  [][/\ (activeTimerIndex # Null /\
          (\/ StopTimer
           \/ (TimerTick /\ LastTick(timeRemaining))
           \/ \E i \in 0..1 : StartTimer(i) \/ RestartTimer(i)))
        => /\ Len(currentSetTimerRuns') = Len(currentSetTimerRuns) + 1
           /\ SubSeq(currentSetTimerRuns', 1, Len(currentSetTimerRuns)) = currentSetTimerRuns
           /\ LET run == currentSetTimerRuns'[Len(currentSetTimerRuns')]
              IN  /\ run.started_at = timerStartTimeRef
                  /\ run.planned_duration_seconds = timerPlannedDurationRef
                  /\ run.duration_seconds = timerPlannedDurationRef - timeRemaining
                       + (IF run.completed THEN timeRemaining ELSE 0)
     /\ (AddSet /\ ~AddSetDisabled)
        => LET old == CurrentExercise.sets
               new == sessionExercises'[currentExerciseIndex + 1].sets
           IN  /\ Len(new) = Len(old) + 1
               /\ SubSeq(new, 1, Len(old)) = old
               /\ RunsSeq(new[Len(new)]) = currentSetTimerRuns
               /\ \A i \in 1..Len(sessionExercises) :
                    i # currentExerciseIndex + 1 => sessionExercises'[i] = sessionExercises[i]
               /\ currentSetTimerRuns' = <<>>
     /\ (\E k \in 1..Len(currentSetTimerRuns) :
            k > Len(currentSetTimerRuns') \/ currentSetTimerRuns'[k] # currentSetTimerRuns[k])
        => \/ (AddSet /\ ~AddSetDisabled)
           \/ \E i \in 0..1 : ChangeExercise(i)
           \/ Reload]_vars

\* start a timer of 2 seconds, stop it after one tick, add a set: the set carries
\* exactly one run, actual 1, planned 2, not completed, and nothing is pending
C11_Witness ==
  /\ currentSetTimerRuns = <<>>
  /\ \E i \in 1..Len(sessionExercises) :
       /\ Len(sessionExercises[i].sets) = 1
       /\ Len(RunsSeq(sessionExercises[i].sets[1])) = 1
       /\ RunsSeq(sessionExercises[i].sets[1])[1].duration_seconds = 1
       /\ RunsSeq(sessionExercises[i].sets[1])[1].planned_duration_seconds = 2
       /\ RunsSeq(sessionExercises[i].sets[1])[1].completed = FALSE

\* C12: a running timer of planned duration D shows D minus the ticks since its
\* start; the tick that finds 1 second left, the D-th, ends it: no interval is
\* live, Add Set is no longer blocked by the timer, and exactly one run
\* {completed, actual D, planned D} is appended to the pending list.  A timer that
\* has the time to finish and is not stopped, superseded or torn down does end.
C12_TimerRunsToZero ==
  /\ [](activeTimerIndex # Null
          => /\ timeRemaining >= 1
             /\ timeRemaining = timerPlannedDurationRef - (now - timerStartTimeRef))
  /\ [][(TimerTick /\ timeRemaining' = 0)
          => /\ now' - timerStartTimeRef = timerPlannedDurationRef
             /\ activeTimerIndex' = Null
             /\ intervals' = {}
             /\ timerIntervalRef' = Null
             /\ currentSetTimerRuns' =
                  Append(currentSetTimerRuns,
                         [started_at |-> timerStartTimeRef,
                          duration_seconds |-> timerPlannedDurationRef,
                          planned_duration_seconds |-> timerPlannedDurationRef,
                          completed |-> TRUE])]_vars
  /\ \A t \in 0..MaxClock :
       (activeTimerIndex # Null /\ timerStartTimeRef = t
          /\ t + timerPlannedDurationRef <= MaxClock)
         ~> ~(activeTimerIndex # Null /\ timerStartTimeRef = t)

\* a timer of 2 seconds ran to zero: idle, nothing live, its completed run pending
C12_Witness ==
  /\ activeTimerIndex = Null
  /\ intervals = {}
  /\ timeRemaining = 0
  /\ now = 2
  /\ currentSetTimerRuns =
       << [started_at |-> 0, duration_seconds |-> 2, planned_duration_seconds |-> 2,
           completed |-> TRUE] >>

\* C13: with a device handle held, a reconnect() whose platform calls resolve
\* ends Connected with the link open, notifications on and the value listener
\* attached; no step of reconnect() opens the device picker; a reconnect()
\* called with the link open does not call gatt.connect() and opens no link;
\* with no handle held, reconnect() changes nothing but the count of calls
C13_ReconnectRestores ==
  /\ [][ReconnectStartOk =>
          (isConnected' /\ gattConnected' /\ notifying' /\ listenerAttached'
           /\ deviceRef' # None /\ reconnectPc' = "idle")]_vars
  /\ [][(ReconnectCall \/ reconnectPc # "idle") =>
          (pickerCalls' = pickerCalls /\ connectPc' = "idle")]_vars
  /\ [][(ReconnectCall /\ deviceRef # None /\ gattConnected) =>
          (reconnectPc' = "lookup" /\ linksOpened' = linksOpened)]_vars
  /\ [][(reconnectPc # "idle" /\ gattConnected) => linksOpened' = linksOpened]_vars
  /\ [][(ReconnectCall /\ deviceRef # None /\ ~gattConnected) => reconnectPc' = "gatt"]_vars
  /\ [][(ReconnectCall /\ deviceRef = None) =>
          UNCHANGED << pageVars, isConnected, currentHeartRate, deviceRef, characteristicRef,
                       persistedDevice, persistedCharacteristic, gattConnected, notifying,
                       listenerAttached, disconnectPc, deviceName, hrError, connectPc,
                       reconnectPc, instance, lossListeners, pickerCalls, linksOpened,
                       losses >>]_vars

\* a reconnect() after a link loss has reopened the link and ended Connected
C13_Witness ==
  /\ isConnected /\ listenerAttached /\ notifying /\ gattConnected
  /\ reconnectPc = "idle"
  /\ hookCalls > 0 /\ losses = 1 /\ pickerCalls = 1 /\ linksOpened = 2

\* C14: a link loss while the page shows Connected leaves the page
\* Disconnected with no current heart rate, in every page instance
C14_LinkLossDisconnects ==
  [][(LinkLost /\ route = "/workout" /\ isConnected) =>
       (~isConnected' /\ currentHeartRate' = Null)]_vars

\* C15: once a disconnect() has returned, the page is Disconnected, the value
\* listener is removed, and the device and characteristic handles of the page
\* and of the module are cleared, whether stopNotifications() resolved or not
C15_DisconnectClears ==
  [][(DisconnectCall \/ DisconnectStopOk \/ DisconnectStopFail) =>
       (disconnectPc' \in {"done", "failed"} =>
          /\ (route = "/workout" => ~isConnected')
          /\ ~listenerAttached'
          /\ deviceRef' = None /\ characteristicRef' = None
          /\ persistedDevice' = None /\ persistedCharacteristic' = None)]_vars

\* C16: whichever awaited step of connect() rejects, the page ends
\* Disconnected with no current heart rate; the message shown is the
\* not-found text exactly for NotFoundError, the access-denied text exactly for
\* SecurityError, and "Connection failed: " followed by the error's message
\* for any other error; the logged sets and their cache are untouched
C16_ConnectFailure ==
  [][\A err \in PlatformErrors :
       ConnectFail(err) =>
         /\ connectPc \in {"picker", "gatt", "lookup", "start"}
         /\ connectPc' = "idle"
         /\ ~isConnected' /\ currentHeartRate' = Null
         /\ (hrError' = NotFoundMessage <=> err.name = "NotFoundError")
         /\ (hrError' = SecurityMessage <=> err.name = "SecurityError")
         /\ (err.name \notin {"NotFoundError", "SecurityError"} =>
               hrError' = << "Connection failed: ", err.message >>)
         /\ sessionExercises' = sessionExercises
         /\ localStorage' = localStorage
         /\ remote' = remote]_vars

\* a set is logged and a connect() has failed at startNotifications() with an
\* error that is neither not-found nor security
C16_Witness ==
  /\ TotalSets(sessionExercises) > 0
  /\ connectPc = "idle" /\ ~isConnected /\ currentHeartRate = Null
  /\ characteristicRef # None
  /\ pickerCalls = 1 /\ hookCalls = 0
  /\ hrError = << "Connection failed: ", "Connection attempt failed." >>

\* C17: tearing the page down leaves the link and the module's handles as they
\* are; a page rebuilt with the link open starts reconnect() from its mount
\* effect, which ends Connected with the value listener attached, records the
\* readings that follow, and the device picker is opened by the Connect button
\* only; a page rebuilt with the link closed is Disconnected, holds the handle
\* and shows the device name, and a reconnect() from there reopens the link
C17_LinkOutlivesPage ==
  /\ [][Teardown =>
          (gattConnected' = gattConnected /\ notifying' = notifying
           /\ persistedDevice' = persistedDevice
           /\ persistedCharacteristic' = persistedCharacteristic)]_vars
  /\ [][(Rebuild /\ persistedDevice # None /\ gattConnected) =>
          (reconnectPc' = "lookup" /\ deviceRef' = persistedDevice
           /\ gattConnected' /\ pickerCalls' = pickerCalls)]_vars
  /\ [][(ReconnectStartOk /\ instance > 0) =>
          (isConnected' /\ listenerAttached' /\ notifying')]_vars
  /\ [][\A v \in HeartRates :
          (Notify(v) /\ instance > 0 /\ isConnected /\ Truthy(v) /\ v # currentHeartRate) =>
            (/\ Len(heartRateReadings') = Len(heartRateReadings) + 1
             /\ heartRateReadings'[Len(heartRateReadings')].value = v)]_vars
  /\ [][pickerCalls' # pickerCalls => ConnectClick]_vars
  /\ [][(Rebuild /\ persistedDevice # None /\ ~gattConnected) =>
          (~isConnected' /\ reconnectPc' = "idle" /\ deviceRef' = persistedDevice
           /\ deviceName' # None /\ persistedDevice' = persistedDevice)]_vars
  /\ [][(ReconnectCall /\ instance > 0 /\ deviceRef # None /\ ~gattConnected) =>
          reconnectPc' = "gatt"]_vars

\* a rebuilt page is Connected over the link the first page opened, and has
\* recorded a reading since it was built
C17_Witness ==
  /\ route = "/workout" /\ instance = 1
  /\ isConnected /\ listenerAttached /\ gattConnected
  /\ pickerCalls = 1 /\ linksOpened = 1 /\ losses = 0 /\ hookCalls = 0
  /\ currentHeartRate = 72
  /\ Len(heartRateReadings) > 0

\* C18: every notification delivered while Connected appends exactly one
\* reading carrying its value to heartRateReadings, and the cache entry of the
\* readings then equals the serialised stream (stated here for the
\* notifications that carry a non-zero heart rate)
C18_EveryNotificationRecorded ==
  [][\A v \in HeartRates :
       (Notify(v) /\ isConnected /\ v > 0) =>
         /\ Len(heartRateReadings') = Len(heartRateReadings) + 1
         /\ SubSeq(heartRateReadings', 1, Len(heartRateReadings)) = heartRateReadings
         /\ heartRateReadings'[Len(heartRateReadings')].value = v
         /\ localStorage'.heart_rate = Some(JsonStringifyReadings(heartRateReadings'))]_vars

\* C19: a cache write that throws, in the exercise save or in the readings
\* save, leaves the page mounted with the new set or reading in memory
C19_CacheWriteFailureContained ==
  /\ [][AddSetSaveThrows =>
          (route' = "/workout"
           /\ TotalSets(sessionExercises') = TotalSets(sessionExercises) + 1)]_vars
  /\ [][\A v \in HeartRates :
          NotifySaveThrows(v) =>
            (route' = "/workout"
             /\ Len(heartRateReadings') = Len(heartRateReadings) + 1)]_vars

\* C20: when the page has left for /plans after the cancellation of a session
\* whose sensor was Connected, and the disconnect() it called has returned,
\* the sensor is disconnected: the link is closed and the handle released
C20_CancelDisconnectsSensor ==
  (route = "/plans" /\ cancelPc = "done" /\ cancelClosure /\ disconnectPc # "stop") =>
    (~gattConnected /\ persistedDevice = None)

\* C21: a completion whose closure excludes the heart rate data, or holds no
\* reading, sends neither the summary nor a batch; the exercises payload it
\* sends carries, per exercise and in order, the sets that are in memory; once
\* it has succeeded both cache entries are gone
C21_CompletionWithoutHeartRate ==
  /\ [][PatchExercisesOk =>
          /\ Len(remote'.exercises) = Len(sessionExercises)
          /\ \A i \in 1..Len(sessionExercises) :
               /\ remote'.exercises[i].exercise_version_id =
                    sessionExercises[i].exercise_version_id
               /\ Len(remote'.exercises[i].sets) = Len(sessionExercises[i].sets)
               /\ remote'.exercises[i].sets = JsonStringifySets(sessionExercises[i].sets)
          /\ (~(completeClosure.include /\ Len(completeClosure.readings) > 0)
                => completePc' = "complete")]_vars
  /\ []((completePc \in {"complete", "refresh", "done"}
          /\ ~(completeClosure.include /\ Len(completeClosure.readings) > 0)) =>
         /\ \A k \in 1..Len(completionSteps) :
              completionSteps[k].call \notin {"summary", "batch"}
         /\ attempts = 1 => (remote.garmin_data = None /\ remote.heart_rate_batches = <<>>))
  /\ []((completePc \in {"refresh", "done"}
          /\ ~(completeClosure.include /\ Len(completeClosure.readings) > 0)) =>
         localStorage = [exercises |-> None, heart_rate |-> None])

\* a completion that excluded a non-empty stream went through with one set logged
C21_Witness ==
  /\ completePc = "done" /\ route = "/history"
  /\ ~completeClosure.include /\ Len(completeClosure.readings) > 0
  /\ TotalSets(sessionExercises) = 1
  /\ Len(remote.exercises[1].sets) = 1
  /\ remote.garmin_data = None /\ remote.heart_rate_batches = <<>>
  /\ localStorage = [exercises |-> None, heart_rate |-> None]

\* C22: the rate decoded from a notified value is its byte 1 when bit 0 of
\* byte 0 is clear, and byte 1 + 256 * byte 2 when that bit is set, whatever
\* the other bits of byte 0 are
C22_Decoding ==
  [][DecodeFirstNotification =>
       LET flags == characteristicValue'[1]
           byte1 == characteristicValue'[2]
       IN  /\ (flags % 2 = 0 => currentHeartRate' = byte1)
           /\ (flags % 2 = 1 => currentHeartRate' = byte1 + 256 * characteristicValue'[3])]_vars

\* a 16-bit rate was decoded from a value whose flags byte has other bits set too
C22_Witness ==
  /\ characteristicValue = << 17, 72, 1 >>
  /\ currentHeartRate = 328
  /\ arrivals = 1

\* the timer state and the pending runs, as one value
TimerState ==
  [runs |-> currentSetTimerRuns, live |-> intervals, intervalRef |-> timerIntervalRef,
   startTime |-> timerStartTimeRef, planned |-> timerPlannedDurationRef,
   active |-> activeTimerIndex, remaining |-> timeRemaining]

\* handleStopTimer as a function of that value
AfterStop(t) ==
  IF t.intervalRef # Null
  THEN [t EXCEPT
          !.live = @ \ {t.intervalRef},
          !.intervalRef = Null,
          !.runs = IF t.startTime # Null /\ Truthy(t.planned) /\ t.remaining # Null
                   THEN Append(@, [started_at |-> t.startTime,
                                   duration_seconds |-> t.planned - t.remaining,
                                   planned_duration_seconds |-> t.planned,
                                   completed |-> FALSE])
                   ELSE @,
          !.startTime = Null,
          !.planned = Null,
          !.active = Null,
          !.remaining = Null]
  ELSE [t EXCEPT !.active = Null, !.remaining = Null]

\* handleStartTimer as a function of that value, at the instant clock
AfterStart(t, timerIndex, duration, clock) ==
  LET s == IF t.intervalRef # Null THEN AfterStop(t) ELSE t
      id == FreshInterval(s.live)
  IN  [s EXCEPT !.active = timerIndex, !.remaining = duration, !.startTime = clock,
                !.planned = duration, !.intervalRef = id, !.live = @ \cup {id}]

\* C23: whatever the timer state (none started, one running, one just
\* completed), a step of handleRestartTimer, which is a call of handleStartTimer,
\* leaves the timer state and the pending runs as handleStopTimer followed by
\* handleStartTimer at the same instant would; the two functions compared are
\* what the Stop and Start buttons do
C23_RestartIsStopThenStart ==
  /\ [][StopTimer => TimerState' = AfterStop(TimerState)]_vars
  /\ [][\A i \in 0..1 :
          (StartTimer(i) \/ RestartTimer(i)) =>
            LET d == CurrentExercise.timers[i + 1].duration
            IN  /\ TimerState' = AfterStart(TimerState, i, d, now)
                /\ TimerState' = AfterStart(AfterStop(TimerState), i, d, now)]_vars

\* a running timer was restarted after one tick: it runs again from its full
\* duration and the run it cut short is pending
C23_Witness ==
  /\ activeTimerIndex # Null /\ intervals # {}
  /\ now = 1 /\ timerStartTimeRef = 1
  /\ timeRemaining = timerPlannedDurationRef
  /\ Len(currentSetTimerRuns) = 1
  /\ ~currentSetTimerRuns[1].completed
  /\ currentSetTimerRuns[1].duration_seconds = 1
  /\ currentSetTimerRuns[1].planned_duration_seconds = timerPlannedDurationRef

\* C24: while one-rep-max mode is on the reps input reads 1 wherever the page
\* is rendered, so a set added in that mode has 1 rep, and the input reads 1
\* again after it with the mode still on; every exercise switch turns the mode off
C24_OneRmLocksReps ==
  /\ []((Ready /\ oneRmMode) => currentReps = "1")
  /\ [][(AddSet /\ oneRmMode
           /\ TotalSets(sessionExercises') = TotalSets(sessionExercises) + 1) =>
          LET sets == sessionExercises'[currentExerciseIndex + 1].sets
          IN  /\ sets[Len(sets)].reps = 1
              /\ currentReps' = "1"
              /\ oneRmMode']_vars
  /\ [][\A i \in 0..1 : ChangeExercise(i) => ~oneRmMode']_vars

\* a set of the first exercise, planned with 10 reps, was added in one-rep-max
\* mode
C24_Witness ==
  /\ Ready /\ oneRmMode /\ currentExerciseIndex = 0
  /\ sessionExercises[1].plannedReps = 10
  /\ Len(sessionExercises[1].sets) = 1
  /\ sessionExercises[1].sets[1].reps = 1
  /\ currentReps = "1"

\* C25: the history of an exercise_version_id is requested at most once in the
\* life of a page, and a cached history is never removed while the page lives
C25_HistoryRequestedOnce ==
  /\ [](\A v \in VersionIds : historyRequests[v] <= 1)
  /\ [][\A v \in VersionIds :
          (exerciseHistoryCache[v] # None /\ reloads' = reloads) =>
            exerciseHistoryCache'[v] # None]_vars

C27_DeleteSetFrame ==
  [][\A s \in 0..(Len(StoredSets) - 1) :
       DeleteSet(currentExerciseIndex, s) =>
         LET e == currentExerciseIndex + 1
             old == sessionExercises[e].sets
             new == sessionExercises'[e].sets
         IN  /\ Len(new) = Len(old) - 1
             /\ \A j \in 1..Len(new) : new[j] = old[IF j <= s THEN j ELSE j + 1]
             /\ Len(sessionExercises') = Len(sessionExercises)
             /\ \A i \in 1..Len(sessionExercises) :
                  i # e => sessionExercises'[i] = sessionExercises[i]
             /\ [sessionExercises'[e] EXCEPT !.sets = <<>>] =
                  [sessionExercises[e] EXCEPT !.sets = <<>>]
             /\ currentExerciseIndex' = currentExerciseIndex
             /\ currentSetTimerRuns' = currentSetTimerRuns
             /\ TimerState' = TimerState]_vars

\* the middle one of three sets was deleted while a timer was counting down
\* and a stopped run was pending
C27_Witness ==
  /\ Ready
  /\ sessionExercises[1].sets = << StoredSets[1], StoredSets[3] >>
  /\ sessionExercises[2].sets = << ServerSet >>
  /\ activeTimerIndex # Null
  /\ Len(currentSetTimerRuns) = 1

\* C28: when the completion signal fails as a countdown reaches zero, the
\* completed run is still appended to the pending runs, the timer is idle
\* with no live interval, and the exercise list and the cache are unchanged
C28_SignalFailureContained ==
  [][TimerTickSignalThrows =>
       /\ route' = "/workout"
       /\ currentSetTimerRuns' = Append(currentSetTimerRuns, CompletedRun)
       /\ activeTimerIndex' = Null
       /\ intervals' = {}
       /\ sessionExercises' = sessionExercises
       /\ localStorage' = localStorage]_vars

\* C29: when a completion that includes the readings succeeds, the readings
\* of the stream at the moment the readings cache is removed are the
\* concatenation of the batches in the store, and the summary is the one
\* computed over them
C29_StreamUploadedWhenCleared ==
  [][(CompleteOk /\ IncludesHeartRate(completeClosure)) =>
       /\ Concat(remote'.heart_rate_batches) = heartRateReadings
       /\ remote'.garmin_data = Some(GarminData(heartRateReadings))]_vars

\* C30: whenever the page reports Connected and no connector operation is in
\* progress, the device handle and the characteristic handle are held and the
\* notification listener is attached to the characteristic
C30_ConnectedHoldsHandles ==
  (route = "/workout" /\ isConnected /\ ConnectorIdle) =>
    (deviceRef # None /\ characteristicRef # None /\ listenerAttached)

====
